---- MODULE Spec2Model ----
(***************************************************************************)
(* Model of the patch engine of the launcher (src/d2/service.go): the      *)
(* manifest diff (getFilesToPatch), the patch applier (doPatch,            *)
(* downloadFile, deleteFile, cleanUpFailedPatch), the mod reset            *)
(* (resetPatch, resetMaphackPatch, resetHDPatch) and the patch pass        *)
(* (Patch); the validation of the installations (ValidateGameVersions);    *)
(* the process launcher (Exec, mutateInstancesToLaunch,                    *)
(* listenForGameStates); and the configuration service of package config   *)
(* (UpsertGame, DeleteGame).                                               *)
(*                                                                         *)
(* A file name is a sequence of tokens, e.g. <<"data", "/", "a.dll">>, so  *)
(* that appending ".tmp", cutting the last four bytes and                  *)
(* strings.Contains(name, ".tmp") are computed as the code computes them.  *)
(* An install directory is a function from the names of the files that     *)
(* exist to their content.                                                 *)
(***************************************************************************)
EXTENDS Integers, Sequences, FiniteSets, TLC

VARIABLES
    fs,          \* the install directory: present file name -> content
    unreadable,  \* names whose read fails with an I/O error (not "not found")
    game,        \* the storage.Game being patched
    manifests,   \* remote manifests: remote directory -> sequence of PatchFile
    step,        \* where the Patch goroutine stands for this installation
    pc,          \* where the current apply step stands
    remoteDir,   \* doPatch's remoteDir argument of the current batch
    patchFiles,  \* doPatch's patchFiles argument of the current batch
    patchLength, \* doPatch's patchLength argument of the current batch
    idx,         \* doPatch: index of the next action of the first loop
    tmpFiles,    \* doPatch: the downloaded .tmp paths
    ridx,        \* doPatch: index of the next rename of the second loop
    patchErr,    \* what doPatch returned: "none" or the failing operation
    cleanErr,    \* whether cleanUpFailedPatch returned an error
    passErr,     \* the error sent on the state channel, "none" if none
    lastDiff,    \* history: the last call of getFilesToPatch and what it returned
    pre,         \* history: the install directory when the current step started
    fetched,     \* history: name -> content GetFile served in the current batch
    started,     \* history: the steps of the pass in the order they started
    progress,    \* history: the values sent on the progress channel in the current batch
    conf,        \* the configuration store: [Games, LaunchDelay]
    runningGames,\* s.runningGames: sequence of game{PID, GameID}
    gameStates,  \* s.gameStates: the buffered channel of execState{pid, err}
    mux,         \* s.mux: "free" or the goroutine that holds it
    ex,          \* the goroutine running Exec: its position and locals
    li,          \* the goroutine running listenForGameStates
    launched,    \* history: the launches of the batch, with the sleep before each
    atStart,     \* history: s.runningGames when Exec started, notifications since
    procs,       \* the operating system: the pids alive and the next pid to give
    installs,    \* per configured installation: its Game, directory, unreadable names
    val,         \* ValidateGameVersions: its position and locals
    patchFileModel, \* s.patchFileModel: the list of files shown as to be patched
    gameModel,   \* the configuration service's game model: its games, in order
    mutex,       \* the configuration service's s.mutex: "free" or its holder
    cs           \* the calls of the configuration service under way or returned

patchVars == <<fs, unreadable, game, manifests, step, pc, remoteDir, patchFiles,
               patchLength, idx, tmpFiles, ridx, patchErr, cleanErr, passErr,
               lastDiff, pre, fetched, started, progress>>
launcherVars == <<conf, runningGames, gameStates, mux, ex, li, launched, atStart,
                  procs>>
validateVars == <<installs, val, patchFileModel>>
configVars == <<gameModel, mutex, cs>>

vars == <<patchVars, launcherVars, validateVars, configVars>>

(***************************************************************************)
(* Bounds of the model.                                                    *)
(***************************************************************************)
\* Longest manifest drawn for a single apply step.
MaxFiles == 2
\* File contents are 0..MaxContent; 0 is the empty (just created) file.
MaxContent == 2

(***************************************************************************)
(* Names and paths.                                                        *)
(***************************************************************************)
TmpSuffix == ".tmp"
PathSep == "/"

BHCfg == <<"BH.cfg">>
ModMaphackIdentifier == <<"BH.dll">>
ModHDIdentifier == <<"D2HD.dll">>
GameExe == <<"Game.exe">>
PatchMpq == <<"Patch_D2.mpq">>
SubDirFile == <<"data", PathSep, "a.dll">>
\* A file that is no download artifact although ".tmp" occurs in its name.
StrayFile == <<"BH.cfg", TmpSuffix, ".bak">>

ModVersionNone == "none"
ActionDownload == "descargar"
ActionDelete == "eliminar"

Contents == 0..MaxContent
\* The contents the remote store serves: none of its files is empty.
ServedContents == 1..MaxContent
CRCs == {"c0", "c1"}

\* fmt.Sprintf("%s/%s.tmp", path, action.File.Name)
TmpPath(name) == Append(name, TmpSuffix)

\* The rename target when the suffix is not cut off.
StripNothing(tmpFile) == tmpFile

\* tmpFile[:len(tmpFile)-4]
StripTmp(tmpFile) == SubSeq(tmpFile, 1, Len(tmpFile) - 1)

\* strings.Contains(fileName, ".tmp")
ContainsTmp(fileName) == \E i \in 1..Len(fileName) : fileName[i] = TmpSuffix

HasSuffixTmp(fileName) == Len(fileName) > 0 /\ fileName[Len(fileName)] = TmpSuffix

\* Whether a path lies in a sub-directory of the install directory.
InSubDir(p) == \E i \in 1..Len(p) : p[i] = PathSep

\* The name ioutil.ReadDir reports for the entry of the install directory
\* that holds path p: the file itself, or the sub-directory it lies in.
TopEntry(p) ==
    IF InSubDir(p)
    THEN SubSeq(p, 1, (CHOOSE i \in 1..Len(p) :
                          p[i] = PathSep /\ \A j \in 1..(i-1) : p[j] # PathSep) - 1)
    ELSE p

(***************************************************************************)
(* The file system.                                                        *)
(***************************************************************************)
Exists(fsys, p) == p \in DOMAIN fsys

WriteFile(fsys, p, c) ==
    [q \in DOMAIN fsys \cup {p} |-> IF q = p THEN c ELSE fsys[q]]

RemoveFile(fsys, p) == [q \in DOMAIN fsys \ {p} |-> fsys[q]]

\* A rename that copies: the file stays at "from" too.
RenameFileKeeping(fsys, from, to) == WriteFile(fsys, to, fsys[from])

\* os.Rename(from, to): the content moves, replacing what was at "to".
RenameFile(fsys, from, to) ==
    [q \in (DOMAIN fsys \ {from}) \cup {to} |-> IF q = to THEN fsys[from] ELSE fsys[q]]

\* The checksum of a content: 32 bits cannot tell all contents apart.
CRC32(c) == IF c % 2 = 0 THEN "c0" ELSE "c1"

\* hashCRC32(localPath, polynomial): the checksum, ErrCRCFileNotFound for an
\* absent file, another error for a file that cannot be read.
hashCRC32(fsys, unread, p) ==
    IF ~Exists(fsys, p) THEN [sum |-> "", err |-> "notfound"]
    ELSE IF p \in unread THEN [sum |-> "", err |-> "io"]
    ELSE [sum |-> CRC32(fsys[p]), err |-> "none"]

fileExistsOnDisk(fsys, fileName) == Exists(fsys, fileName)

\* The test of the ignore list never finding the name.
IsIgnoredNever(name, filesToIgnore) == FALSE

\* for _, ignored := range filesToIgnore { if f.Name == ignored ... }
IsIgnored(name, filesToIgnore) ==
    \E i \in 1..Len(filesToIgnore) : filesToIgnore[i] = name

(***************************************************************************)
(* The manifest diff.                                                      *)
(***************************************************************************)
NewAction(f, kind, localCRC) == [Action |-> kind, File |-> f, LocalCRC |-> localCRC]

DiffError(e) == [actions |-> <<>>, total |-> 0, err |-> e]

\* The deprecated block without its check that the file exists.
DeprecatedCaseUnchecked(acc, f, fsys, unread) ==
    [acc EXCEPT !.actions =
        Append(@, NewAction(f, ActionDelete, hashCRC32(fsys, unread, f.Name).sum))]

\* The deprecated block adding the length of the entry to the total.
DeprecatedCaseCounted(acc, f, fsys, unread) ==
    LET hashed == hashCRC32(fsys, unread, f.Name) IN
    IF fileExistsOnDisk(fsys, f.Name) THEN
        IF hashed.err # "none" THEN DiffError(hashed.err)
        ELSE [acc EXCEPT !.actions = Append(@, NewAction(f, ActionDelete, hashed.sum)),
                         !.total = @ + f.ContentLength]
    ELSE acc

\* The block "if f.Deprecated { ... continue }": a Delete, carrying the local
\* checksum, when the file still exists.
DeprecatedCase(acc, f, fsys, unread) ==
    LET hashed == hashCRC32(fsys, unread, f.Name) IN
    IF fileExistsOnDisk(fsys, f.Name) THEN
        IF hashed.err # "none" THEN DiffError(hashed.err)
        ELSE [acc EXCEPT !.actions = Append(@, NewAction(f, ActionDelete, hashed.sum))]
    ELSE acc

\* The rest of the loop body with the IgnoreCRC test moved before the
\* test for a missing file.
ChecksumCaseIgnoreFirst(acc, f, fsys, unread) ==
    LET hashed == hashCRC32(fsys, unread, f.Name)
        download == [acc EXCEPT
                        !.actions = Append(@, NewAction(f, ActionDownload, hashed.sum)),
                        !.total = @ + f.ContentLength]
    IN  IF f.IgnoreCRC THEN acc
        ELSE IF hashed.err = "notfound" THEN download
        ELSE IF hashed.err # "none" THEN DiffError(hashed.err)
        ELSE IF hashed.sum # f.CRC THEN download
        ELSE acc

\* The rest of the loop body with a Delete, in place of a Download, for a
\* file that differs from the manifest.
ChecksumCaseDeleteDiffering(acc, f, fsys, unread) ==
    LET hashed == hashCRC32(fsys, unread, f.Name)
        download == [acc EXCEPT
                        !.actions = Append(@, NewAction(f, ActionDownload, hashed.sum)),
                        !.total = @ + f.ContentLength]
    IN  IF hashed.err = "notfound" THEN download
        ELSE IF hashed.err # "none" THEN DiffError(hashed.err)
        ELSE IF f.IgnoreCRC THEN acc
        ELSE IF hashed.sum # f.CRC
        THEN [acc EXCEPT !.actions =
                 Append(@, NewAction(f, ActionDelete, hashed.sum))]
        ELSE acc

\* The rest of the loop body: a Download for a file that is missing or, unless
\* the entry ignores the checksum, differs from the manifest.
ChecksumCase(acc, f, fsys, unread) ==
    LET hashed == hashCRC32(fsys, unread, f.Name)
        download == [acc EXCEPT
                        !.actions = Append(@, NewAction(f, ActionDownload, hashed.sum)),
                        !.total = @ + f.ContentLength]
    IN  IF hashed.err = "notfound" THEN download
        ELSE IF hashed.err # "none" THEN DiffError(hashed.err)
        ELSE IF f.IgnoreCRC THEN acc
        ELSE IF hashed.sum # f.CRC THEN download
        ELSE acc

\* The iteration with the IgnoreCRC test, for a file that exists, made
\* before the test of f.Deprecated.
getFilesToPatchStepIgnoreCRCFirst(acc, f, fsys, unread, filesToIgnore) ==
    IF acc.err # "none" THEN acc
    ELSE IF IsIgnored(f.Name, filesToIgnore) THEN acc
    ELSE IF f.IgnoreCRC /\ fileExistsOnDisk(fsys, f.Name) THEN acc
    ELSE IF f.Deprecated THEN DeprecatedCase(acc, f, fsys, unread)
    ELSE ChecksumCase(acc, f, fsys, unread)

\* One iteration of getFilesToPatch's loop over the manifest: acc is
\* [actions, total, err] so far, f the manifest entry.
getFilesToPatchStep(acc, f, fsys, unread, filesToIgnore) ==
    IF acc.err # "none" THEN acc
    ELSE IF IsIgnored(f.Name, filesToIgnore) THEN acc
    ELSE IF f.Deprecated THEN DeprecatedCase(acc, f, fsys, unread)
    ELSE ChecksumCase(acc, f, fsys, unread)

\* The loop over the manifest taken from its last entry to its first.
RECURSIVE getFilesToPatchLoopBackwards(_, _, _, _, _, _)
getFilesToPatchLoopBackwards(acc, i, files, fsys, unread, filesToIgnore) ==
    IF i > Len(files) THEN acc
    ELSE getFilesToPatchStep(
             getFilesToPatchLoopBackwards(acc, i + 1, files, fsys, unread, filesToIgnore),
             files[i], fsys, unread, filesToIgnore)

RECURSIVE getFilesToPatchLoop(_, _, _, _, _, _)
getFilesToPatchLoop(acc, i, files, fsys, unread, filesToIgnore) ==
    IF i > Len(files) THEN acc
    ELSE getFilesToPatchLoop(
             getFilesToPatchStep(acc, files[i], fsys, unread, filesToIgnore),
             i + 1, files, fsys, unread, filesToIgnore)

\* getFilesToPatch(files, d2path, filesToIgnore): (actions, total, err).
getFilesToPatch(files, fsys, unread, filesToIgnore) ==
    getFilesToPatchLoop([actions |-> <<>>, total |-> 0, err |-> "none"],
                        1, files, fsys, unread, filesToIgnore)

(***************************************************************************)
(* The patch applier.                                                      *)
(***************************************************************************)
DownloadFailures == {"create", "fetch", "copy"}

\* The bytes of a content.
ContentSize(c) == c

\* progress <- 0.00; a value of the progress channel is kept as the fraction
\* num/den that makes it.
ProgressZero == [num |-> 0, den |-> 1]

\* counter.Written: the bytes counted in the batch so far.
Written(sent) == IF Len(sent) <= 1 THEN 0 ELSE sent[Len(sent)].num

\* io.Copy(out, io.TeeReader(contents, counter)) of n bytes: the counter adds
\* what each Write brings and sends Written/Total; the Writes are taken a
\* byte at a time, which gives every value a coarser copy can send.
WriteCounter(sent, total, n) ==
    sent \o [k \in 1..n |-> [num |-> Written(sent) + k, den |-> total]]

\* A download that writes onto the final name instead of the .tmp sibling.
downloadFileInPlace(fsys, path, outcome, c) ==
    IF outcome = "create" THEN fsys
    ELSE IF outcome = "ok" THEN WriteFile(fsys, StripTmp(path), c)
    ELSE WriteFile(fsys, StripTmp(path), 0)

\* downloadFile(fileName, remoteDir, path, counter): outcome is "ok" or the
\* call that failed; c is the content GetFile serves. os.Create leaves an
\* empty file, which a failed fetch or copy does not complete.
downloadFile(fsys, path, outcome, c) ==
    IF outcome = "create" THEN fsys
    ELSE IF outcome = "ok" THEN WriteFile(fsys, path, c)
    ELSE WriteFile(fsys, path, 0)

\* deleteFile(fileName, path): a file that is absent is no error.
deleteFile(fsys, fileName, removeOk) ==
    IF ~Exists(fsys, fileName) THEN [fs |-> fsys, err |-> FALSE]
    ELSE IF removeOk THEN [fs |-> RemoveFile(fsys, fileName), err |-> FALSE]
    ELSE [fs |-> fsys, err |-> TRUE]

\* Every entry name ioutil.ReadDir can report here, in its (byte) order.
DirOrder ==
    << BHCfg, TmpPath(BHCfg), StrayFile,
       ModMaphackIdentifier, TmpPath(ModMaphackIdentifier),
       ModHDIdentifier, TmpPath(ModHDIdentifier),
       GameExe, TmpPath(GameExe), PatchMpq, TmpPath(PatchMpq), <<"data">> >>

\* ioutil.ReadDir(dir): the entries of the install directory itself, sorted.
ReadDir(fsys) ==
    LET present(e) == \E p \in DOMAIN fsys : TopEntry(p) = e
    IN  SelectSeq(DirOrder, present)

IsDir(fsys, e) == \E p \in DOMAIN fsys : InSubDir(p) /\ TopEntry(p) = e

\* The entries cleanUpFailedPatch tries to remove, in order.
CleanUpTargets(fsys) == SelectSeq(ReadDir(fsys), ContainsTmp)

\* How many of them os.Remove can remove before it must fail (a directory
\* that is not empty cannot be removed).
CleanUpRemovable(fsys) ==
    LET t == CleanUpTargets(fsys)
        dirs == {i \in 1..Len(t) : IsDir(fsys, t[i])}
    IN  IF dirs = {} THEN Len(t)
        ELSE (CHOOSE i \in dirs : \A j \in dirs : i <= j) - 1

\* cleanUpFailedPatch(dir) when its first n removals succeed.
cleanUpFailedPatch(fsys, n) ==
    LET t == CleanUpTargets(fsys)
        gone == {t[i] : i \in 1..n}
    IN  [q \in DOMAIN fsys \ gone |-> fsys[q]]

(***************************************************************************)
(* The patch pass of one installation.                                     *)
(***************************************************************************)
ApplySteps == {"apply113c", "applySlash", "applyMaphack", "applyHD"}

MaphackDir(v) == "maphack_" \o v
HDDir(v) == "hd_" \o v

\* The remote directory an apply step patches from.
StepRemoteDir(s, g) ==
    CASE s = "apply113c" -> "1.13c"
      [] s = "applySlash" -> "current"
      [] s = "applyMaphack" -> MaphackDir(g.MaphackVersion)
      [] s = "applyHD" -> HDDir(g.HDVersion)

\* if game.OverrideBHCfg { ignoredMaphackFiles = append(..., "BH.cfg") }
IgnoredMaphackFiles(g) == IF g.OverrideBHCfg THEN <<BHCfg>> ELSE <<>>

StepIgnore(s, g) == IF s = "applyMaphack" THEN IgnoredMaphackFiles(g) ELSE <<>>

\* The order of the steps in Patch's loop body.
AfterMaphack(g) == IF g.HDVersion # ModVersionNone THEN "applyHD" ELSE "configure"
AfterSlash(g) == IF g.MaphackVersion # ModVersionNone THEN "applyMaphack" ELSE AfterMaphack(g)
\* The order with the HD reset put off until the base version is applied.
NextStepLateReset(s, g) ==
    CASE s = "resetMaphack" -> "apply113c"
      [] s = "apply113c" -> "resetHD"
      [] s = "resetHD" -> "applySlash"
      [] s = "applySlash" -> AfterSlash(g)
      [] s = "applyMaphack" -> AfterMaphack(g)
      [] s = "applyHD" -> "configure"
      [] s = "configure" -> "done"

NextStep(s, g) ==
    CASE s = "resetMaphack" -> "resetHD"
      [] s = "resetHD" -> "apply113c"
      [] s = "apply113c" -> "applySlash"
      [] s = "applySlash" -> AfterSlash(g)
      [] s = "applyMaphack" -> AfterMaphack(g)
      [] s = "applyHD" -> "configure"
      [] s = "configure" -> "done"

\* state <- PatchState{Error: err}; return, going on with the next step
\* instead.
stepAfterErrorGoesOn(s, g) == NextStep(s, g)

\* state <- PatchState{Error: err} with done <- true after it.
stepAfterErrorThenDone(s, g) == "done"

\* state <- PatchState{Error: err}; return: the goroutine of Patch ends.
stepAfterError(s, g) == "error"

EmptyFetched == [n \in {} |-> 0]

\* What is remembered of a call of getFilesToPatch.
NoDiff == [ran |-> FALSE, files |-> <<>>, ignore |-> <<>>,
           actions |-> <<>>, total |-> 0, err |-> "none"]
DiffRecord(files, filesToIgnore, d) ==
    [ran |-> TRUE, files |-> files, ignore |-> filesToIgnore,
     actions |-> d.actions, total |-> d.total, err |-> d.err]

\* An apply step up to its call of doPatch: fetch the manifest, diff, and
\* return at once when the manifest cannot be had, the diff fails, or nothing
\* is to be patched.
ApplyBegin ==
    /\ step \in ApplySteps
    /\ pc = "begin"
    /\ pre' = fs
    /\ \E manifestOk \in BOOLEAN :
         LET dir == StepRemoteDir(step, game)
             d == getFilesToPatch(manifests[dir], fs, unreadable, StepIgnore(step, game))
         IN
         /\ lastDiff' = IF manifestOk
                         THEN DiffRecord(manifests[dir], StepIgnore(step, game), d)
                         ELSE lastDiff
         /\  IF ~manifestOk \/ d.err # "none"
             THEN /\ step' = stepAfterError(step, game)
                  /\ passErr' = IF manifestOk THEN "diff" ELSE "manifest"
                  /\ UNCHANGED <<pc, remoteDir, patchFiles, patchLength, idx,
                                 tmpFiles, ridx, fetched, progress>>
             ELSE IF Len(d.actions) = 0
             THEN /\ step' = NextStep(step, game)
                  /\ UNCHANGED <<pc, remoteDir, patchFiles, patchLength, idx,
                                 tmpFiles, ridx, fetched, passErr, progress>>
             ELSE /\ pc' = "doPatch"
                  /\ progress' = <<ProgressZero>>
                  /\ remoteDir' = dir
                  /\ patchFiles' = d.actions
                  /\ patchLength' = d.total
                  /\ idx' = 1
                  /\ ridx' = 1
                  /\ tmpFiles' = <<>>
                  /\ fetched' = EmptyFetched
                  /\ UNCHANGED <<step, passErr>>
    /\ started' = Append(started, step)
    /\ UNCHANGED <<fs, unreadable, game, manifests, patchErr, cleanErr>>
    /\ UNCHANGED <<launcherVars, validateVars, configVars>>

InFirstLoop == pc = "doPatch" /\ idx <= Len(patchFiles)

\* doPatch, first loop, case ActionDownload.
DownloadStep ==
    /\ InFirstLoop
    /\ patchFiles[idx].Action = ActionDownload
    /\ LET name == patchFiles[idx].File.Name
           tmpPath == TmpPath(name)
       IN  \/ \E c \in ServedContents :
                /\ fs' = downloadFile(fs, tmpPath, "ok", c)
                /\ tmpFiles' = Append(tmpFiles, tmpPath)
                /\ fetched' = WriteFile(fetched, name, c)
                /\ progress' = WriteCounter(progress, patchLength, ContentSize(c))
                /\ idx' = idx + 1
                /\ UNCHANGED <<pc, patchErr>>
           \/ \E failure \in DownloadFailures :
                /\ fs' = downloadFile(fs, tmpPath, failure, 0)
                /\ patchErr' = "download"
                /\ pc' = "failed"
                /\ UNCHANGED <<tmpFiles, fetched, idx, progress>>
    /\ UNCHANGED <<unreadable, game, manifests, step, remoteDir, patchFiles,
                   patchLength, ridx, cleanErr, passErr, lastDiff, pre, started>>
    /\ UNCHANGED <<launcherVars, validateVars, configVars>>

\* doPatch, first loop, case ActionDelete.
DeleteStep ==
    /\ InFirstLoop
    /\ patchFiles[idx].Action = ActionDelete
    /\ \E removeOk \in BOOLEAN :
         LET r == deleteFile(fs, patchFiles[idx].File.Name, removeOk)
         IN  /\ fs' = r.fs
             /\ unreadable' = unreadable \cap DOMAIN r.fs
             /\ IF r.err
                THEN patchErr' = "delete" /\ pc' = "failed" /\ idx' = idx
                ELSE idx' = idx + 1 /\ UNCHANGED <<pc, patchErr>>
    /\ UNCHANGED <<game, manifests, step, remoteDir, patchFiles, patchLength,
                   tmpFiles, ridx, cleanErr, passErr, lastDiff, pre, fetched,
                   started>>
    /\ UNCHANGED <<launcherVars, validateVars, configVars, progress>>

InSecondLoop == pc = "doPatch" /\ idx > Len(patchFiles) /\ ridx <= Len(tmpFiles)

\* doPatch, second loop: os.Rename(tmpFile, tmpFile[:len(tmpFile)-4]).
RenameStep ==
    /\ InSecondLoop
    /\ \E renameOk \in BOOLEAN :
         IF renameOk /\ Exists(fs, tmpFiles[ridx])
         THEN /\ fs' = RenameFile(fs, tmpFiles[ridx], StripTmp(tmpFiles[ridx]))
              /\ unreadable' = unreadable \ {StripTmp(tmpFiles[ridx])}
              /\ ridx' = ridx + 1
              /\ UNCHANGED <<pc, patchErr>>
         ELSE /\ patchErr' = "rename"
              /\ pc' = "failed"
              /\ UNCHANGED <<fs, unreadable, ridx>>
    /\ UNCHANGED <<game, manifests, step, remoteDir, patchFiles, patchLength,
                   idx, tmpFiles, cleanErr, passErr, lastDiff, pre, fetched,
                   started>>
    /\ UNCHANGED <<launcherVars, validateVars, configVars, progress>>

\* doPatch is about to return nil.
DoPatchDone == pc = "doPatch" /\ idx > Len(patchFiles) /\ ridx > Len(tmpFiles)

\* doPatch returns nil, so does the apply step, and Patch goes on.
ApplyReturn ==
    /\ DoPatchDone
    /\ step' = NextStep(step, game)
    /\ pc' = "begin"
    /\ UNCHANGED <<fs, unreadable, game, manifests, remoteDir, patchFiles,
                   patchLength, idx, tmpFiles, ridx, patchErr, cleanErr,
                   passErr, lastDiff, pre, fetched, started>>
    /\ UNCHANGED <<launcherVars, validateVars, configVars, progress>>

\* fmt.Errorf("Error de limpieza: %s : %s", patchErr, err)
CompoundError(patchE, cleanE) == "Error de limpieza: " \o patchE \o " : " \o cleanE

\* What the apply step returns with the error of the cleanup only.
applyErrorOfCleanup(patchE, cleanFailed) ==
    IF cleanFailed THEN "cleanup" ELSE patchE

\* What an apply step returns after doPatch failed: the error of doPatch, or
\* the compound error when cleanUpFailedPatch failed too.
applyError(patchE, cleanFailed) ==
    IF cleanFailed THEN CompoundError(patchE, "cleanup") ELSE patchE

\* doPatch returned an error: the apply step calls cleanUpFailedPatch and
\* returns the error (with the cleanup's, if it failed), which Patch sends on
\* the state channel before it returns.
CleanUp ==
    /\ pc = "failed"
    /\ \E readOk \in BOOLEAN, n \in 0..CleanUpRemovable(fs) :
         /\ readOk \/ n = 0
         /\ fs' = cleanUpFailedPatch(fs, n)
         /\ cleanErr' = (~readOk \/ n < Len(CleanUpTargets(fs)))
    /\ unreadable' = unreadable \cap DOMAIN fs'
    /\ pc' = "returned"
    /\ step' = stepAfterError(step, game)
    /\ passErr' = applyError(patchErr, cleanErr')
    /\ UNCHANGED <<game, manifests, remoteDir, patchFiles, patchLength, idx,
                   tmpFiles, ridx, patchErr, lastDiff, pre, fetched, started>>
    /\ UNCHANGED <<launcherVars, validateVars, configVars, progress>>

(***************************************************************************)
(* The mod reset.                                                          *)
(***************************************************************************)
\* mods.Maphack and mods.HD: the versions the remote catalog advertises.
AvailableMods == [Maphack |-> <<"A", "B">>, HD |-> <<"A", "B">>]

\* isModInstalled(path, identifier, manifest): the manifest lists the marker
\* file of the mod family and that file exists in the install directory.
isModInstalled(fsys, identifier, manifest) ==
    /\ \E i \in 1..Len(manifest) : manifest[i].Name = identifier
    /\ Exists(fsys, identifier)

\* resetPatch's loop over the manifest from entry i on: r is [fs, err, left,
\* diff], left counting the removals that succeed before os.Remove fails (-1: none
\* fails).
RECURSIVE resetPatchLoop(_, _, _, _)
resetPatchLoop(r, i, files, filesToIgnore) ==
    IF r.err \/ i > Len(files) THEN r
    ELSE IF ~Exists(r.fs, files[i].Name) \/ IsIgnored(files[i].Name, filesToIgnore)
    THEN resetPatchLoop(r, i + 1, files, filesToIgnore)
    ELSE IF r.left = 0
    THEN [r EXCEPT !.err = TRUE]
    ELSE resetPatchLoop([r EXCEPT !.fs = RemoveFile(@, files[i].Name),
                                  !.left = IF @ > 0 THEN @ - 1 ELSE @],
                        i + 1, files, filesToIgnore)

\* resetPatch(path, files, filesToIgnore), given the diff d it computed first:
\* the files are removed only if not all of them are mismatched.
resetPatch(r, files, d, filesToIgnore) ==
    IF d.err # "none" THEN [r EXCEPT !.err = TRUE]
    ELSE IF Len(d.actions) # Len(files)
    THEN resetPatchLoop(r, 1, files, filesToIgnore)
    ELSE r

\* The body of the loop of resetMaphackPatch and resetHDPatch over the
\* available versions, from version k on. r is [fs, err, left, diff]; fault is
\* the version whose manifest cannot be fetched ("" for none).
RECURSIVE resetModLoop(_, _, _, _, _, _, _, _, _)
resetModLoop(r, k, versions, desired, dirOf, identifier, unread, filesToIgnore, fault) ==
    IF r.err \/ k > Len(versions) THEN r
    ELSE IF versions[k] = desired
    THEN resetModLoop(r, k + 1, versions, desired, dirOf, identifier, unread,
                      filesToIgnore, fault)
    ELSE IF versions[k] = fault THEN [r EXCEPT !.err = TRUE]
    ELSE LET files == manifests[dirOf[versions[k]]]
             d == getFilesToPatch(files, r.fs, unread, filesToIgnore)
             q == IF isModInstalled(r.fs, identifier, files)
                  THEN resetPatch([r EXCEPT !.diff = DiffRecord(files, filesToIgnore, d)],
                                  files, d, filesToIgnore)
                  ELSE r
         IN  resetModLoop(q, k + 1, versions, desired, dirOf, identifier, unread,
                          filesToIgnore, fault)

MaphackDirs == [v \in {"A", "B"} |-> MaphackDir(v)]
HDDirs == [v \in {"A", "B"} |-> HDDir(v)]

\* The faults of a reset: the catalog of mods cannot be fetched ("mods"), the
\* manifest of a version cannot be fetched, or the n-th os.Remove fails.
ResetFaults ==
    [kind : {"none", "mods"}, version : {""}, left : {-1}]
        \cup [kind : {"manifest"}, version : {"A", "B"}, left : {-1}]
        \cup [kind : {"remove"}, version : {""}, left : 0..(MaxFiles - 1)]

\* resetMaphackPatch(game, filesToIgnore) or resetHDPatch(game) under a fault.
resetMod(fsys, unread, versions, desired, dirOf, identifier, filesToIgnore, fault) ==
    IF fault.kind = "mods"
    THEN [fs |-> fsys, err |-> TRUE, left |-> -1, diff |-> lastDiff]
    ELSE resetModLoop([fs |-> fsys, err |-> FALSE, left |-> fault.left, diff |-> lastDiff],
                      1, versions, desired, dirOf, identifier, unread,
                      filesToIgnore, fault.version)

\* What Patch does with what a reset returned.
ResetDone(r) ==
    /\ fs' = r.fs
    /\ unreadable' = unreadable \cap DOMAIN r.fs
    /\ lastDiff' = r.diff
    /\ pre' = fs
    /\ IF r.err
       THEN step' = stepAfterError(step, game) /\ passErr' = "reset"
       ELSE step' = NextStep(step, game) /\ UNCHANGED passErr
    /\ started' = Append(started, step)
    /\ UNCHANGED <<game, manifests, pc, remoteDir, patchFiles, patchLength, idx,
                   tmpFiles, ridx, patchErr, cleanErr, fetched>>
    /\ UNCHANGED <<launcherVars, validateVars, configVars, progress>>

\* err := s.resetMaphackPatch(game, ignoredMaphackFiles)
ResetMaphack ==
    /\ step = "resetMaphack"
    /\ \E fault \in ResetFaults :
         ResetDone(resetMod(fs, unreadable, AvailableMods.Maphack, game.MaphackVersion,
                            MaphackDirs, ModMaphackIdentifier,
                            IgnoredMaphackFiles(game), fault))

\* err = s.resetHDPatch(game)
ResetHD ==
    /\ step = "resetHD"
    /\ \E fault \in ResetFaults :
         ResetDone(resetMod(fs, unreadable, AvailableMods.HD, game.HDVersion,
                            HDDirs, ModHDIdentifier, <<>>, fault))

\* err = configureForOS(game.Location), and after the last installation
\* done <- true.
ConfigureForOS ==
    /\ step = "configure"
    /\ \E ok \in BOOLEAN :
         IF ok THEN step' = "done" /\ UNCHANGED passErr
         ELSE step' = stepAfterError(step, game) /\ passErr' = "configure"
    /\ started' = Append(started, step)
    /\ UNCHANGED <<fs, unreadable, game, manifests, pc, remoteDir, patchFiles,
                   patchLength, idx, tmpFiles, ridx, patchErr, cleanErr,
                   lastDiff, pre, fetched>>
    /\ UNCHANGED <<launcherVars, validateVars, configVars, progress>>

(***************************************************************************)
(* Inputs.                                                                 *)
(***************************************************************************)
\* The launcher before any call of Exec, with no process running.
LauncherIdle ==
    /\ conf = [Games |-> <<>>, LaunchDelay |-> 0]
    /\ runningGames = <<>>
    /\ gameStates = <<>>
    /\ mux = "free"
    /\ ex = [pc |-> "idle"]
    /\ li = [pc |-> "receive", state |-> [pid |-> <<>>, err |-> FALSE], before |-> <<>>]
    /\ launched = <<>>
    /\ atStart = [running |-> <<>>, notified |-> FALSE]
    /\ procs = [live |-> {}, next |-> 1, exited |-> 0]

\* The validation before any call of ValidateGameVersions.
ValidateIdle ==
    /\ installs = <<>>
    /\ val = [pc |-> "idle"]
    /\ patchFileModel = <<>>

\* The configuration service before any call, with no game in its model.
ConfigIdle ==
    /\ gameModel = <<>>
    /\ mutex = "free"
    /\ cs = [pc |-> "idle"]

\* A remote object has one checksum and one length.
RemoteObjects == {[CRC |-> "c0", ContentLength |-> 2], [CRC |-> "c1", ContentLength |-> 1]}

PatchFilesOf(names) ==
    {[Name |-> n, CRC |-> o.CRC, ContentLength |-> o.ContentLength,
      IgnoreCRC |-> i, Deprecated |-> d] :
        n \in names, o \in RemoteObjects, i \in BOOLEAN, d \in BOOLEAN}

\* The manifests of at most maxLen entries that list each name once.
ManifestsOf(names, maxLen) ==
    {m \in UNION {[1..n -> PatchFilesOf(names)] : n \in 0..maxLen} :
        \A i, j \in 1..Len(m) : m[i].Name = m[j].Name => i = j}

FileSystemsOf(paths, contents) == UNION {[S -> contents] : S \in SUBSET paths}

RemoteDirs == {"1.13c", "current", "maphack_A", "maphack_B", "hd_A", "hd_B"}

ApplyNames == {BHCfg, SubDirFile}

\* An install directory in which an earlier batch that did not end may have
\* left the .tmp sibling of a download.
WithLeftover(fsys, leftover) ==
    IF leftover THEN WriteFile(fsys, TmpPath(BHCfg), 1) ELSE fsys

\* One apply step (applyMaphack, which takes both a manifest and an ignore
\* list) on an arbitrary manifest and install directory.
InitApply ==
    /\ game \in [OverrideBHCfg : BOOLEAN, MaphackVersion : {"A"}, HDVersion : {ModVersionNone}]
    /\ \E m \in ManifestsOf(ApplyNames, MaxFiles) :
         manifests = [d \in RemoteDirs |-> IF d = "maphack_A" THEN m ELSE <<>>]
    /\ \E f \in FileSystemsOf(ApplyNames, Contents), stray \in BOOLEAN,
          leftover \in BOOLEAN :
         fs = WithLeftover(IF stray THEN WriteFile(f, StrayFile, 1) ELSE f, leftover)
    /\ unreadable \in {u \in SUBSET ApplyNames : Cardinality(u) <= 1 /\ u \subseteq DOMAIN fs}
    /\ step = "applyMaphack"
    /\ pc = "begin"
    /\ remoteDir = ""
    /\ patchFiles = <<>>
    /\ patchLength = 0
    /\ idx = 1
    /\ ridx = 1
    /\ tmpFiles = <<>>
    /\ patchErr = "none"
    /\ cleanErr = FALSE
    /\ passErr = "none"
    /\ lastDiff = NoDiff
    /\ pre = fs
    /\ fetched = EmptyFetched
    /\ started = <<>>
    /\ progress = <<>>
    /\ LauncherIdle
    /\ ValidateIdle
    /\ ConfigIdle

NextApply ==
    \/ ApplyBegin
    \/ DownloadStep
    \/ DeleteStep
    \/ RenameStep
    \/ ApplyReturn
    \/ CleanUp

SpecApply == InitApply /\ [][NextApply]_vars

Entry(name, crc, len, ignoreCRC) ==
    [Name |-> name, CRC |-> crc, ContentLength |-> len,
     IgnoreCRC |-> ignoreCRC, Deprecated |-> FALSE]

\* The remote manifests of a patch pass: a base version, a community patch, and
\* two versions of each mod family, each version with the family's marker file.
\* cfg tells how the maphack manifests list BH.cfg: as any file ("plain"),
\* with ignore_crc set ("ignore_crc"), or with version B deprecating it
\* ("deprecated").
CfgKinds == {"plain", "ignore_crc", "deprecated"}

PassManifests(cfg) ==
    [d \in RemoteDirs |->
        CASE d = "1.13c" -> <<Entry(GameExe, "c1", 1, FALSE)>>
          [] d = "current" -> <<Entry(PatchMpq, "c0", 2, FALSE)>>
          [] d = "maphack_A" -> <<Entry(ModMaphackIdentifier, "c1", 1, FALSE),
                                  Entry(BHCfg, "c1", 1, cfg = "ignore_crc")>>
          [] d = "maphack_B" -> <<Entry(ModMaphackIdentifier, "c0", 2, FALSE),
                                  [Entry(BHCfg, "c0", 2, cfg = "ignore_crc")
                                      EXCEPT !.Deprecated = (cfg = "deprecated")]>>
          [] d = "hd_A" -> <<Entry(ModHDIdentifier, "c1", 1, FALSE)>>
          [] d = "hd_B" -> <<Entry(ModHDIdentifier, "c0", 2, FALSE)>>]

PassNames == {GameExe, PatchMpq, ModMaphackIdentifier, BHCfg, ModHDIdentifier}

ModVersions == {ModVersionNone, "A", "B"}

\* A patch pass of one installation, from any install directory.
Init ==
    /\ game \in [OverrideBHCfg : BOOLEAN, MaphackVersion : ModVersions,
                 HDVersion : ModVersions]
    /\ \E cfg \in CfgKinds : manifests = PassManifests(cfg)
    /\ fs \in FileSystemsOf(PassNames, {1, 2})
    /\ unreadable = {}
    /\ step = "resetMaphack"
    /\ pc = "begin"
    /\ remoteDir = ""
    /\ patchFiles = <<>>
    /\ patchLength = 0
    /\ idx = 1
    /\ ridx = 1
    /\ tmpFiles = <<>>
    /\ patchErr = "none"
    /\ cleanErr = FALSE
    /\ passErr = "none"
    /\ lastDiff = NoDiff
    /\ pre = fs
    /\ fetched = EmptyFetched
    /\ started = <<>>
    /\ progress = <<>>
    /\ LauncherIdle
    /\ ValidateIdle
    /\ ConfigIdle

Next ==
    \/ ResetMaphack
    \/ ResetHD
    \/ ApplyBegin
    \/ DownloadStep
    \/ DeleteStep
    \/ RenameStep
    \/ ApplyReturn
    \/ CleanUp
    \/ ConfigureForOS

Spec == Init /\ [][Next]_vars

\* A patch pass in which the goroutine of Patch is scheduled and each of its
\* calls returns; its sends go through, the caller receiving on the three
\* channels. The installation has no HD mod and the maphack manifests are
\* those in which version B deprecates BH.cfg.
InitFair ==
    /\ Init
    /\ manifests = PassManifests("deprecated")
    /\ game.HDVersion = ModVersionNone
    /\ DOMAIN fs \subseteq {GameExe, ModMaphackIdentifier, BHCfg}

SpecFair == InitFair /\ [][Next]_vars /\ WF_vars(Next)

(***************************************************************************)
(* The process launcher.                                                   *)
(***************************************************************************)
\* const defaultLaunchDelay = 1000
defaultLaunchDelay == 1000
\* make(chan execState, 4)
GameStatesCap == 4

\* Most instances an installation is configured with.
MaxInstances == 2
\* Most processes that exit.
MaxExits == 1

GameOrder == <<"g1", "g2">>
GameIDs == {GameOrder[k] : k \in 1..Len(GameOrder)}

\* game{PID, GameID}
NewGame(pid, id) == [PID |-> pid, GameID |-> id]

\* execState{pid, err}: the pointer pid is <<>> when nil, <<p>> otherwise.
NewExecState(pid, err) == [pid |-> pid, err |-> err]

\* mutateInstancesToLaunch, the inner loop: the entries of s.runningGames
\* with the id of the installation.
runningCount(id, running) ==
    Cardinality({j \in 1..Len(running) : running[j].GameID = id})

\* games[i].Instances = games[i].Instances - runningCount
mutateInstances(games, i, running) ==
    [games EXCEPT ![i].Instances = @ - runningCount(games[i].ID, running)]

\* for i := 0; i < g.Instances; i++ with the bound taken inclusive.
LaunchesLeftInclusive(g, i) == i <= g.Instances

\* if g.Instances > 0 { for i := 0; i < g.Instances; i++ {
LaunchesLeft(g, i) == g.Instances > 0 /\ i < g.Instances

\* The place (k, i) of the next turn of Exec's loops at or after (k, i): k is
\* past the list when nothing is left to launch.
RECURSIVE NextTurn(_, _, _)
NextTurn(games, k, i) ==
    IF k > Len(games) THEN [k |-> k, i |-> 0]
    ELSE IF LaunchesLeft(games[k], i) THEN [k |-> k, i |-> i]
    ELSE NextTurn(games, k + 1, 0)

\* firstRun := (k == 0 && i == 0), k counted from 1 here.
firstRun(k, i) == k = 1 /\ i = 0

\* Where Exec stands at the turn (k, i).
TurnPc(games, t) ==
    IF t.k > Len(games) THEN "return"
    ELSE IF firstRun(t.k, t.i) THEN "launch" ELSE "sleep"

\* Exec up to its loops: Read the configuration, and fix the delay.
\* mutateInstancesToLaunch then runs over a list that is not empty.
ExecBegin ==
    /\ ex.pc = "idle"
    /\ \/ /\ ex' = [pc |-> "done", err |-> TRUE, games |-> <<>>, delayMS |-> 0,
                    m |-> 1, k |-> 1, i |-> 0, slept |-> 0, pid |-> <<>>,
                    loaded |-> <<>>]
       \/ /\ LET t == NextTurn(conf.Games, 1, 0) IN
             ex' = [pc |-> IF conf.Games = <<>> THEN TurnPc(conf.Games, t) ELSE "mutate",
                    err |-> FALSE,
                    games |-> conf.Games,
                    delayMS |-> IF conf.LaunchDelay = 0 THEN defaultLaunchDelay
                                ELSE conf.LaunchDelay,
                    m |-> 1, k |-> t.k, i |-> t.i, slept |-> 0, pid |-> <<>>,
                    loaded |-> <<>>]
    /\ atStart' = [running |-> runningGames, notified |-> FALSE]
    /\ launched' = <<>>
    /\ UNCHANGED <<conf, runningGames, gameStates, mux, li, procs>>
    /\ UNCHANGED <<patchVars, validateVars, configVars>>

\* append(s.runningGames[:index], s.runningGames[index+1:]...) cutting the
\* slice at index instead.
RemoveIndexAndRest(r, index) == [r EXCEPT !.cur = index - 1]

\* s.runningGames = append(s.runningGames[:index], s.runningGames[index+1:]...)
\* on the array r.arr of which s.runningGames is the first r.cur entries: the
\* entries after index move down by one, in place.
RemoveIndex(r, index) ==
    [r EXCEPT !.arr = [j \in DOMAIN r.arr |->
                          IF j >= index /\ j < r.cur THEN r.arr[j + 1] ELSE r.arr[j]],
              !.cur = r.cur - 1]

\* The listener's loop from index on: it ranges over the n entries the slice
\* had when the loop began, reads each from the array as it is by then, and
\* panics when it slices past the end of what s.runningGames has become.
RECURSIVE reapLoop(_, _, _, _)
reapLoop(r, index, n, state) ==
    IF r.panic \/ index > n THEN r
    ELSE IF state.pid # <<>> /\ r.arr[index].PID = state.pid[1]
    THEN IF index > r.cur
         THEN [r EXCEPT !.panic = TRUE]
         ELSE reapLoop(RemoveIndex(r, index), index + 1, n, state)
    ELSE reapLoop(r, index + 1, n, state)

reap(running, state) ==
    reapLoop([arr |-> running, cur |-> Len(running), panic |-> FALSE],
             1, Len(running), state)

\* What a read of s.runningGames made without s.mux can see: the slice as it
\* is, or, while the listener is removing under s.mux, the length read before
\* the removal with the entries as the removal has moved them.
RunningViews ==
    {runningGames} \cup
    (IF li.pc = "remove" THEN {reap(runningGames, li.state).arr} ELSE {})

\* mutateInstancesToLaunch, one turn of its outer loop; s.mux is not taken.
MutateStep ==
    /\ ex.pc = "mutate"
    /\ \E running \in RunningViews :
         LET games == mutateInstances(ex.games, ex.m, running)
             t == NextTurn(games, 1, 0)
         IN  ex' = IF ex.m < Len(ex.games)
                   THEN [ex EXCEPT !.games = games, !.m = @ + 1]
                   ELSE [ex EXCEPT !.games = games, !.m = @ + 1, !.k = t.k,
                                   !.i = t.i, !.pc = TurnPc(games, t)]
    /\ UNCHANGED <<conf, runningGames, gameStates, mux, li, launched, atStart, procs>>
    /\ UNCHANGED <<patchVars, validateVars, configVars>>

\* time.Sleep(time.Duration(delayMS) * time.Millisecond)
ExecSleep ==
    /\ ex.pc = "sleep"
    /\ ex' = [ex EXCEPT !.pc = "launch", !.slept = @ + ex.delayMS]
    /\ UNCHANGED <<conf, runningGames, gameStates, mux, li, launched, atStart, procs>>
    /\ UNCHANGED <<patchVars, validateVars, configVars>>

\* The pids the operating system can give to a new process: one never used,
\* or the pid of a process that has exited.
FreePids == {procs.next} \cup ((1..(procs.next - 1)) \ procs.live)

\* pid, err := launch(g.Location, g.Flags, s.gameStates): a new process with
\* a pid no live process carries, or an error, which Exec returns; a process
\* that could not be started may be notified without pid.
ExecLaunch ==
    /\ ex.pc = "launch"
    /\ \/ \E p \in FreePids :
          /\ ex' = [ex EXCEPT !.pc = "load", !.pid = <<p>>, !.slept = 0]
          /\ launched' = Append(launched, [GameID |-> ex.games[ex.k].ID,
                                           pid |-> <<p>>,
                                           slept |-> ex.slept])
          /\ procs' = [procs EXCEPT !.live = @ \cup {p},
                                    !.next = IF p = procs.next THEN @ + 1 ELSE @]
          /\ UNCHANGED gameStates
       \/ /\ ex' = [ex EXCEPT !.pc = "done", !.err = TRUE, !.slept = 0]
          /\ launched' = Append(launched, [GameID |-> ex.games[ex.k].ID,
                                           pid |-> <<>>,
                                           slept |-> ex.slept])
          /\ \E notify \in BOOLEAN :
                gameStates' = IF notify /\ Len(gameStates) < GameStatesCap
                              THEN Append(gameStates, NewExecState(<<>>, TRUE))
                              ELSE gameStates
          /\ UNCHANGED procs
    /\ UNCHANGED <<conf, runningGames, mux, li, atStart>>
    /\ UNCHANGED <<patchVars, validateVars, configVars>>

\* append(s.runningGames, ...) reads the slice; s.mux is not taken.
ExecLoad ==
    /\ ex.pc = "load"
    /\ ex' = [ex EXCEPT !.pc = "store", !.loaded = runningGames]
    /\ UNCHANGED <<conf, runningGames, gameStates, mux, li, launched, atStart, procs>>
    /\ UNCHANGED <<patchVars, validateVars, configVars>>

\* s.runningGames = append(...) stores the slice read, with the new game;
\* i++ and the next turn of the loops.
ExecStore ==
    /\ ex.pc = "store"
    /\ runningGames' = Append(ex.loaded, NewGame(ex.pid[1], ex.games[ex.k].ID))
    /\ LET t == NextTurn(ex.games, ex.k, ex.i + 1) IN
       ex' = [ex EXCEPT !.k = t.k, !.i = t.i, !.pc = TurnPc(ex.games, t),
                        !.loaded = <<>>, !.pid = <<>>]
    /\ UNCHANGED <<conf, gameStates, mux, li, launched, atStart, procs>>
    /\ UNCHANGED <<patchVars, validateVars, configVars>>

\* return nil
ExecReturn ==
    /\ ex.pc = "return"
    /\ ex' = [ex EXCEPT !.pc = "done"]
    /\ UNCHANGED <<conf, runningGames, gameStates, mux, li, launched, atStart, procs>>
    /\ UNCHANGED <<patchVars, validateVars, configVars>>

ExecRunning == ex.pc \notin {"idle", "done"}

\* A process exits while Exec runs: the goroutine waiting for it sends its
\* pid, and the error of its exit if any, on s.gameStates (it waits while the
\* buffer is full).
GameExit ==
    /\ ExecRunning
    /\ Len(gameStates) < GameStatesCap
    /\ procs.exited < MaxExits
    /\ \E p \in procs.live, err \in BOOLEAN :
         /\ gameStates' = Append(gameStates, NewExecState(<<p>>, err))
         /\ procs' = [procs EXCEPT !.live = @ \ {p}, !.exited = @ + 1]
    /\ atStart' = [atStart EXCEPT !.notified = TRUE]
    /\ UNCHANGED <<conf, runningGames, mux, ex, li, launched>>
    /\ UNCHANGED <<patchVars, validateVars, configVars>>

\* case state := <-s.gameStates, and the logging of state.err.
ListenerReceive ==
    /\ li.pc = "receive"
    /\ gameStates # <<>>
    /\ li' = [li EXCEPT !.pc = "lock", !.state = Head(gameStates)]
    /\ gameStates' = Tail(gameStates)
    /\ UNCHANGED <<conf, runningGames, mux, ex, launched, atStart, procs>>
    /\ UNCHANGED <<patchVars, validateVars, configVars>>

\* s.mux.Lock()
ListenerLock ==
    /\ li.pc = "lock"
    /\ mux = "free"
    /\ mux' = "listener"
    /\ li' = [li EXCEPT !.pc = "remove"]
    /\ UNCHANGED <<conf, runningGames, gameStates, ex, launched, atStart, procs>>
    /\ UNCHANGED <<patchVars, validateVars, configVars>>

\* for index, g := range s.runningGames { ... }, under s.mux.
ListenerRemove ==
    /\ li.pc = "remove"
    /\ LET r == reap(runningGames, li.state) IN
       /\ runningGames' = SubSeq(r.arr, 1, r.cur)
       /\ li' = [li EXCEPT !.pc = IF r.panic THEN "panic" ELSE "unlock",
                           !.before = runningGames]
    /\ UNCHANGED <<conf, gameStates, mux, ex, launched, atStart, procs>>
    /\ UNCHANGED <<patchVars, validateVars, configVars>>

\* s.mux.Unlock()
ListenerUnlock ==
    /\ li.pc = "unlock"
    /\ mux' = "free"
    /\ li' = [li EXCEPT !.pc = "receive", !.before = <<>>,
                        !.state = [pid |-> <<>>, err |-> FALSE]]
    /\ UNCHANGED <<conf, runningGames, gameStates, ex, launched, atStart, procs>>
    /\ UNCHANGED <<patchVars, validateVars, configVars>>

\* s.runningGames = append(...) of Exec, made without s.mux, while the
\* listener is in its own s.runningGames = append(...): the listener has read
\* the slice before the store of Exec and writes it after, so the slice keeps
\* what the listener wrote and the game Exec stored is not in it.
ExecStoreOverwritten ==
    /\ ex.pc = "store"
    /\ li.pc = "remove"
    /\ LET r == reap(runningGames, li.state) IN
       /\ ~r.panic
       /\ r.cur < Len(runningGames)
       /\ runningGames' = SubSeq(r.arr, 1, r.cur)
       /\ li' = [li EXCEPT !.pc = "unlock", !.before = runningGames]
    /\ LET t == NextTurn(ex.games, ex.k, ex.i + 1) IN
       ex' = [ex EXCEPT !.k = t.k, !.i = t.i, !.pc = TurnPc(ex.games, t),
                        !.loaded = <<>>, !.pid = <<>>]
    /\ UNCHANGED <<conf, gameStates, mux, launched, atStart, procs>>
    /\ UNCHANGED <<patchVars, validateVars, configVars>>

\* The lists of installations of a configuration: each id once, the ids in
\* one order (the other order is the same list with the ids renamed).
GameLists ==
    UNION {{[k \in 1..n |-> [ID |-> GameOrder[k], Instances |-> c[k]]] :
               c \in [1..n -> 0..MaxInstances]} : n \in 0..Len(GameOrder)}

\* What s.runningGames can hold when Exec is called: the games launched
\* before whose exit has not been handled, with the pids 1, 2, ...
RunningLists ==
    UNION {[1..n -> GameIDs] : n \in 0..Len(GameOrder)}

\* A call of Exec, with the listener running since NewService.
InitExec ==
    /\ \E games \in GameLists, delay \in {0, 500} :
         conf = [Games |-> games, LaunchDelay |-> delay]
    /\ \E ids \in RunningLists :
         /\ runningGames = [j \in 1..Len(ids) |-> NewGame(j, ids[j])]
         /\ procs = [live |-> 1..Len(ids), next |-> Len(ids) + 1, exited |-> 0]
         /\ atStart = [running |-> runningGames, notified |-> FALSE]
    /\ gameStates = <<>>
    /\ mux = "free"
    /\ ex = [pc |-> "idle"]
    /\ li = [pc |-> "receive", state |-> NewExecState(<<>>, FALSE), before |-> <<>>]
    /\ launched = <<>>
    /\ fs = EmptyFetched
    /\ unreadable = {}
    /\ game = [OverrideBHCfg |-> FALSE, MaphackVersion |-> ModVersionNone,
               HDVersion |-> ModVersionNone]
    /\ manifests = [d \in RemoteDirs |-> <<>>]
    /\ step = "done"
    /\ pc = "begin"
    /\ remoteDir = ""
    /\ patchFiles = <<>>
    /\ patchLength = 0
    /\ idx = 1
    /\ ridx = 1
    /\ tmpFiles = <<>>
    /\ patchErr = "none"
    /\ cleanErr = FALSE
    /\ passErr = "none"
    /\ lastDiff = NoDiff
    /\ pre = fs
    /\ fetched = EmptyFetched
    /\ started = <<>>
    /\ progress = <<>>
    /\ ValidateIdle
    /\ ConfigIdle

NextExec ==
    \/ ExecBegin
    \/ MutateStep
    \/ ExecSleep
    \/ ExecLaunch
    \/ ExecLoad
    \/ ExecStore
    \/ ExecStoreOverwritten
    \/ ExecReturn
    \/ GameExit
    \/ ListenerReceive
    \/ ListenerLock
    \/ ListenerRemove
    \/ ListenerUnlock

SpecExec == InitExec /\ [][NextExec]_vars

(***************************************************************************)
(* The validation of the installations.                                    *)
(***************************************************************************)
\* addFilesToModel(patchActions): one file of the model per action, in
\* order, added as the loop goes.
addFilesToModel(model, actions, d2path) ==
    model \o [i \in 1..Len(actions) |->
                 [Name |-> actions[i].File.Name,
                  D2Path |-> d2path,
                  RemoteCRC |-> actions[i].File.CRC,
                  LocalCRC |-> actions[i].LocalCRC,
                  FileAction |-> actions[i].Action]]

\* addPatchFilesToBeDeleted's loop from entry i on: a Delete per manifest
\* file, or the first error of hashCRC32 whatever it is.
RECURSIVE deleteActionsLoop(_, _, _, _, _)
deleteActionsLoop(acc, i, files, fsys, unread) ==
    IF i > Len(files) \/ acc.err # "none" THEN acc
    ELSE LET hashed == hashCRC32(fsys, unread, files[i].Name) IN
         deleteActionsLoop(
             IF hashed.err # "none" THEN [acc EXCEPT !.err = hashed.err]
             ELSE [acc EXCEPT !.actions =
                      Append(@, NewAction(files[i], ActionDelete, hashed.sum))],
             i + 1, files, fsys, unread)

\* addPatchFilesToBeDeleted removing the files it lists, as resetPatch does.
addPatchFilesToBeDeletedRemoving(model, files, fsys, unread, d2path) ==
    LET r == deleteActionsLoop([actions |-> <<>>, err |-> "none"], 1, files,
                               fsys, unread)
    IN  IF r.err # "none" THEN [model |-> model, err |-> r.err, dir |-> fsys]
        ELSE [model |-> addFilesToModel(model, r.actions, d2path), err |-> "none",
              dir |-> [n \in DOMAIN fsys \ {files[i].Name : i \in 1..Len(files)}
                          |-> fsys[n]]]

\* addPatchFilesToBeDeleted(d2path, files): [model, err], and the install
\* directory as the call leaves it: it hashes the files and lists them.
addPatchFilesToBeDeleted(model, files, fsys, unread, d2path) ==
    LET r == deleteActionsLoop([actions |-> <<>>, err |-> "none"], 1, files,
                               fsys, unread)
    IN  IF r.err # "none" THEN [model |-> model, err |-> r.err, dir |-> fsys]
        ELSE [model |-> addFilesToModel(model, r.actions, d2path), err |-> "none",
              dir |-> fsys]

\* validateMaphackVersion and validateHDVersion, the loop over the versions
\* from the k-th on: acc is [model, isValid, err, dir], dir being the install
\* directory as the calls made so far leave it; the fetch of the manifest
\* of the failAt-th version fails (0: none does).
RECURSIVE validateModLoop(_, _, _, _, _, _, _, _)
validateModLoop(acc, k, versions, dirOf, identifier, desired, inst, failAt) ==
    IF k > Len(versions) \/ acc.err # "none" THEN acc
    ELSE IF failAt = k THEN [acc EXCEPT !.isValid = FALSE, !.err = "fetch"]
    ELSE
      LET v == versions[k]
          manifest == manifests[dirOf[v]]
          ignored == IF identifier = ModMaphackIdentifier /\ inst.game.OverrideBHCfg
                     THEN <<BHCfg>> ELSE <<>>
          missing == getFilesToPatch(manifest, acc.dir, inst.unread, ignored)
          deleted == addPatchFilesToBeDeleted(acc.model, manifest, acc.dir,
                                              inst.unread, inst.d2path)
          next ==
            IF desired = v THEN
                IF missing.err # "none"
                THEN [acc EXCEPT !.isValid = FALSE, !.err = missing.err]
                ELSE IF Len(missing.actions) > 0
                THEN [acc EXCEPT !.isValid = FALSE,
                                 !.model = addFilesToModel(@, missing.actions,
                                                           inst.d2path)]
                ELSE acc
            ELSE IF isModInstalled(acc.dir, identifier, manifest) THEN
                IF deleted.err # "none"
                THEN [acc EXCEPT !.isValid = FALSE, !.err = deleted.err,
                                 !.dir = deleted.dir]
                ELSE [acc EXCEPT !.isValid = FALSE, !.model = deleted.model,
                                 !.dir = deleted.dir]
            ELSE acc
      IN  validateModLoop(next, k + 1, versions, dirOf, identifier, desired,
                          inst, failAt)

validateMaphackVersion(model, inst, versions, failAt) ==
    validateModLoop([model |-> model, isValid |-> TRUE, err |-> "none",
                     dir |-> inst.dir], 1,
                    versions, MaphackDirs, ModMaphackIdentifier,
                    inst.game.MaphackVersion, inst, failAt)

validateHDVersion(model, inst, versions, failAt) ==
    validateModLoop([model |-> model, isValid |-> TRUE, err |-> "none",
                     dir |-> inst.dir], 1,
                    versions, HDDirs, ModHDIdentifier,
                    inst.game.HDVersion, inst, failAt)

\* The installation ValidateGameVersions is at, with its index as location.
CurrentInstall ==
    [game |-> installs[val.g].game, dir |-> installs[val.g].dir,
     unread |-> installs[val.g].unread, d2path |-> val.g]

\* return false, err
ValidateFailed(e) == [val EXCEPT !.pc = "done", !.result = FALSE, !.err = e]

\* ValidateGameVersions up to its loop: the configuration is read, the two
\* manifests and the catalog of mods are fetched; any of them can fail.
ValidateBegin ==
    /\ val.pc = "idle"
    /\ LET start == [pc |-> IF installs = <<>> THEN "return" ELSE "113c",
                     g |-> 1, upToDate |-> TRUE, result |-> FALSE,
                     err |-> "none", baseDiffs |-> 0, before |-> patchFileModel]
       IN  \/ val' = start
           \/ \E e \in {"config", "fetch", "mods"} :
                 val' = [start EXCEPT !.pc = "done", !.err = e]
    /\ UNCHANGED <<installs, patchFileModel>>
    /\ UNCHANGED <<patchVars, launcherVars, configVars>>

\* valid, err := validate113cVersion(game.Location), any of its verdicts,
\* and the diff against the 1.13c manifest when the verdict is "not valid".
Validate113c ==
    /\ val.pc = "113c"
    /\ \E verdict \in {"valid", "invalid", "error"} :
         LET inst == CurrentInstall
             d == getFilesToPatch(manifests["1.13c"], inst.dir, inst.unread, <<>>)
         IN  CASE verdict = "error" ->
                    /\ val' = ValidateFailed("version")
                    /\ UNCHANGED patchFileModel
               [] verdict = "valid" ->
                    /\ val' = [val EXCEPT !.pc = "slash"]
                    /\ UNCHANGED patchFileModel
               [] verdict = "invalid" /\ d.err # "none" ->
                    /\ val' = [ValidateFailed(d.err) EXCEPT !.upToDate = FALSE]
                    /\ UNCHANGED patchFileModel
               [] verdict = "invalid" /\ d.err = "none" ->
                    /\ val' = [val EXCEPT !.pc = "slash", !.upToDate = FALSE,
                                          !.baseDiffs = @ + 1]
                    /\ patchFileModel' =
                          addFilesToModel(patchFileModel, d.actions, inst.d2path)
    /\ UNCHANGED installs
    /\ UNCHANGED <<patchVars, launcherVars, configVars>>

\* The diff against the manifest of the community patch.
ValidateSlash ==
    /\ val.pc = "slash"
    /\ LET inst == CurrentInstall
           d == getFilesToPatch(manifests["current"], inst.dir, inst.unread, <<>>)
       IN  IF d.err # "none"
           THEN /\ val' = ValidateFailed(d.err)
                /\ UNCHANGED patchFileModel
           ELSE /\ val' = [val EXCEPT !.pc = "maphack",
                                      !.upToDate = @ /\ Len(d.actions) = 0]
                /\ patchFileModel' =
                      addFilesToModel(patchFileModel, d.actions, inst.d2path)
    /\ UNCHANGED installs
    /\ UNCHANGED <<patchVars, launcherVars, configVars>>

\* validMaphack, err := s.validateMaphackVersion(&game, mods.Maphack)
ValidateMaphack ==
    /\ val.pc = "maphack"
    /\ \E failAt \in 0..Len(AvailableMods.Maphack) :
         LET r == validateMaphackVersion(patchFileModel, CurrentInstall,
                                         AvailableMods.Maphack, failAt)
         IN  /\ patchFileModel' = r.model
             /\ installs' = [installs EXCEPT ![val.g].dir = r.dir]
             /\ val' = IF r.err # "none" THEN ValidateFailed(r.err)
                       ELSE [val EXCEPT !.pc = "hd",
                                        !.upToDate = @ /\ r.isValid]
    /\ UNCHANGED <<patchVars, launcherVars, configVars>>

\* validHD, err := s.validateHDVersion(&game, mods.HD), and the next turn of
\* the loop over the installations.
ValidateHD ==
    /\ val.pc = "hd"
    /\ \E failAt \in 0..Len(AvailableMods.HD) :
         LET r == validateHDVersion(patchFileModel, CurrentInstall,
                                    AvailableMods.HD, failAt)
         IN  /\ patchFileModel' = r.model
             /\ val' = IF r.err # "none" THEN ValidateFailed(r.err)
                       ELSE [val EXCEPT !.pc = IF val.g < Len(installs)
                                               THEN "113c" ELSE "return",
                                        !.g = @ + 1,
                                        !.upToDate = @ /\ r.isValid]
             /\ installs' = [installs EXCEPT ![val.g].dir = r.dir]
    /\ UNCHANGED <<patchVars, launcherVars, configVars>>

\* return upToDate, nil
ValidateReturn ==
    /\ val.pc = "return"
    /\ val' = [val EXCEPT !.pc = "done", !.result = val.upToDate]
    /\ UNCHANGED <<installs, patchFileModel>>
    /\ UNCHANGED <<patchVars, launcherVars, configVars>>

\* The installations a configuration can list: any game settings, any
\* install directory over the files of the manifests, BH.cfg unreadable or
\* not when it exists.
Installs ==
    {[game |-> g, dir |-> d, unread |-> u] :
        g \in [OverrideBHCfg : BOOLEAN, MaphackVersion : ModVersions,
               HDVersion : ModVersions],
        d \in FileSystemsOf(PassNames, {1, 2}),
        u \in {{}, {BHCfg}}}

\* The directory that every manifest of a game without mods agrees with.
CurrentDir == [n \in {GameExe, PatchMpq} |-> IF n = GameExe THEN 1 ELSE 2]

\* The installations listed before another one: without mods, up to date
\* or lacking the file of the community patch.
EarlierInstalls ==
    {[game |-> [OverrideBHCfg |-> FALSE, MaphackVersion |-> ModVersionNone,
                HDVersion |-> ModVersionNone],
      dir |-> d, unread |-> {}] :
        d \in {CurrentDir, [n \in {GameExe} |-> 1]}}

InstallLists ==
    {<<>>}
      \cup {<<a>> : a \in {i \in Installs : i.unread \subseteq DOMAIN i.dir}}
      \cup {<<a, b>> : a \in EarlierInstalls,
                       b \in {i \in Installs : i.unread = {}
                                               /\ ~i.game.OverrideBHCfg}}

\* A call of ValidateGameVersions, the model of files to patch being empty.
InitValidate ==
    /\ installs \in InstallLists
    /\ val = [pc |-> "idle"]
    /\ patchFileModel = <<>>
    /\ manifests = PassManifests("plain")
    /\ fs = EmptyFetched
    /\ unreadable = {}
    /\ game = [OverrideBHCfg |-> FALSE, MaphackVersion |-> ModVersionNone,
               HDVersion |-> ModVersionNone]
    /\ step = "done"
    /\ pc = "begin"
    /\ remoteDir = ""
    /\ patchFiles = <<>>
    /\ patchLength = 0
    /\ idx = 1
    /\ ridx = 1
    /\ tmpFiles = <<>>
    /\ patchErr = "none"
    /\ cleanErr = FALSE
    /\ passErr = "none"
    /\ lastDiff = NoDiff
    /\ pre = fs
    /\ fetched = EmptyFetched
    /\ started = <<>>
    /\ progress = <<>>
    /\ LauncherIdle
    /\ ConfigIdle

NextValidate ==
    \/ ValidateBegin
    \/ Validate113c
    \/ ValidateSlash
    \/ ValidateMaphack
    \/ ValidateHD
    \/ ValidateReturn

SpecValidate == InitValidate /\ [][NextValidate]_vars

(***************************************************************************)
(* The configuration service (package config): UpsertGame and DeleteGame   *)
(* on the game model and the persistent store.                             *)
(***************************************************************************)
\* Most games the persistent store lists.
MaxGames == 3
\* Most calls of the service in a row.
MaxCalls == 2

ConfigIDs == {"g1", "g2", "g3"}

\* A game as the store and the game model hold it, with the values AddGame
\* gives a new game; its location is the path numbered j.
ConfigGame(id, j) ==
    [ID |-> id, Location |-> j, Instances |-> 1, OverrideBHCfg |-> FALSE,
     Flags |-> <<"-w", "-skiptobnet">>, HDVersion |-> ModVersionNone,
     MaphackVersion |-> ModVersionNone]

\* UpdateGameRequest
UpdateGameRequests ==
    {[ID |-> id, Location |-> 0, Instances |-> 2, OverrideBHCfg |-> TRUE,
      Flags |-> <<"-w">>, HDVersion |-> "A", MaphackVersion |-> "A"] :
        id \in ConfigIDs}

\* games[i].Location = request.Location, ..., games[i].MaphackVersion =
\* request.MaphackVersion
updateFields(g, request) ==
    [g EXCEPT !.Location = request.Location,
              !.Instances = request.Instances,
              !.OverrideBHCfg = request.OverrideBHCfg,
              !.Flags = request.Flags,
              !.HDVersion = request.HDVersion,
              !.MaphackVersion = request.MaphackVersion]

\* UpsertGame's loop over s.gameModel.Games() from i on: every game with the
\* id of the request takes its fields; updatedIndex, counted from 1 here, is
\* the place of the last of them, and the first place when there is none.
RECURSIVE upsertLoop(_, _, _, _)
upsertLoop(games, i, updatedIndex, request) ==
    IF i > Len(games) THEN [games |-> games, updatedIndex |-> updatedIndex]
    ELSE IF games[i].ID = request.ID
    THEN upsertLoop([games EXCEPT ![i] = updateFields(@, request)], i + 1, i, request)
    ELSE upsertLoop(games, i + 1, updatedIndex, request)

ConfigCallable ==
    /\ cs.pc \in {"idle", "done"}
    /\ mutex = "free"
    /\ (cs.pc = "done" => cs.calls < MaxCalls)

CallsSoFar == IF cs.pc = "idle" THEN 0 ELSE cs.calls

\* UpsertGame(request), under s.mutex from its first line to its return:
\* the loop, then s.gameModel.updateGame(updatedIndex), which tells the
\* interface that the game at that place has changed.
UpsertGame ==
    /\ ConfigCallable
    /\ \E request \in UpdateGameRequests :
         LET r == upsertLoop(gameModel, 1, 1, request) IN
         /\ gameModel' = r.games
         /\ cs' = [pc |-> "done", op |-> "UpsertGame", id |-> request.ID,
                   request |-> request, err |-> FALSE, updated |-> r.updatedIndex,
                   conf |-> conf, store |-> conf.Games, model |-> gameModel,
                   calls |-> CallsSoFar + 1]
    /\ UNCHANGED <<mutex, conf, runningGames, gameStates, mux, ex, li, launched,
                   atStart, procs>>
    /\ UNCHANGED <<patchVars, validateVars>>

\* append(games[:i], games[i+1:]...)
RemoveAt(games, i) == SubSeq(games, 1, i - 1) \o SubSeq(games, i + 1, Len(games))

\* for i := 0; i < len(conf.Games); i++ { if conf.Games[i].ID == id {
\* conf.Games = append(conf.Games[:i], conf.Games[i+1:]...) } }: after a
\* removal the loop goes on at i + 1 of the shortened list.
RECURSIVE deleteFromConf(_, _, _)
deleteFromConf(games, i, id) ==
    IF i > Len(games) THEN games
    ELSE IF games[i].ID = id THEN deleteFromConf(RemoveAt(games, i), i + 1, id)
    ELSE deleteFromConf(games, i + 1, id)

\* s.gameModel.removeGame(i): the game model without the game at place i.
removeGame(model, i) == RemoveAt(model, i)

\* for i := 0; i < len(games); i++ { if games[i].ID == id {
\* s.gameModel.removeGame(i) } } over games, the list Games() returned
\* before the loop.
RECURSIVE deleteFromModel(_, _, _, _)
deleteFromModel(games, model, i, id) ==
    IF i > Len(games) THEN model
    ELSE IF games[i].ID = id
    THEN deleteFromModel(games, removeGame(model, i), i + 1, id)
    ELSE deleteFromModel(games, model, i + 1, id)

\* DeleteGame(id) up to s.store.Read(): s.mutex is taken, and given back by
\* the deferred Unlock when Read fails and DeleteGame returns its error.
DeleteGameRead ==
    /\ ConfigCallable
    /\ \E id \in ConfigIDs, readOk \in BOOLEAN :
         /\ cs' = [pc |-> IF readOk THEN "write" ELSE "done", op |-> "DeleteGame",
                   id |-> id, request |-> <<>>, err |-> ~readOk, updated |-> 0,
                   conf |-> conf, store |-> conf.Games, model |-> gameModel,
                   calls |-> CallsSoFar + 1]
         /\ mutex' = IF readOk THEN "DeleteGame" ELSE "free"
    /\ UNCHANGED <<gameModel, conf, runningGames, gameStates, mux, ex, li,
                   launched, atStart, procs>>
    /\ UNCHANGED <<patchVars, validateVars>>

\* The removal from conf.Games and s.store.Write(conf), whose error
\* DeleteGame returns.
DeleteGameWrite ==
    /\ cs.pc = "write"
    /\ \E writeOk \in BOOLEAN :
         /\ conf' = IF writeOk
                    THEN [cs.conf EXCEPT !.Games = deleteFromConf(@, 1, cs.id)]
                    ELSE conf
         /\ cs' = [cs EXCEPT !.pc = IF writeOk THEN "model" ELSE "done",
                             !.err = ~writeOk]
         /\ mutex' = IF writeOk THEN mutex ELSE "free"
    /\ UNCHANGED <<gameModel, runningGames, gameStates, mux, ex, li, launched,
                   atStart, procs>>
    /\ UNCHANGED <<patchVars, validateVars>>

\* The removal from the game model, and return nil.
DeleteGameModel ==
    /\ cs.pc = "model"
    /\ gameModel' = deleteFromModel(gameModel, gameModel, 1, cs.id)
    /\ cs' = [cs EXCEPT !.pc = "done"]
    /\ mutex' = "free"
    /\ UNCHANGED <<conf, runningGames, gameStates, mux, ex, li, launched,
                   atStart, procs>>
    /\ UNCHANGED <<patchVars, validateVars>>

\* The lists of at most MaxGames games with ids of ConfigIDs, the j-th at the
\* path numbered j.
ConfigGameLists ==
    UNION {{[j \in 1..n |-> ConfigGame(ids[j], j)] : ids \in [1..n -> ConfigIDs]} :
              n \in 0..MaxGames}

\* The lists among them that give each game an id of its own, as AddGame does.
DistinctGameLists ==
    {l \in ConfigGameLists : \A i, j \in 1..Len(l) : l[i].ID = l[j].ID => i = j}

\* The configuration service with a store, which is a file that may list an
\* id more than once, and a game model.
InitConfig ==
    /\ \E games \in ConfigGameLists : conf = [Games |-> games, LaunchDelay |-> 0]
    /\ gameModel \in DistinctGameLists
    /\ mutex = "free"
    /\ cs = [pc |-> "idle"]
    /\ runningGames = <<>>
    /\ gameStates = <<>>
    /\ mux = "free"
    /\ ex = [pc |-> "idle"]
    /\ li = [pc |-> "receive", state |-> [pid |-> <<>>, err |-> FALSE], before |-> <<>>]
    /\ launched = <<>>
    /\ atStart = [running |-> <<>>, notified |-> FALSE]
    /\ procs = [live |-> {}, next |-> 1, exited |-> 0]
    /\ fs = EmptyFetched
    /\ unreadable = {}
    /\ game = [OverrideBHCfg |-> FALSE, MaphackVersion |-> ModVersionNone,
               HDVersion |-> ModVersionNone]
    /\ manifests = [d \in RemoteDirs |-> <<>>]
    /\ step = "done"
    /\ pc = "begin"
    /\ remoteDir = ""
    /\ patchFiles = <<>>
    /\ patchLength = 0
    /\ idx = 1
    /\ ridx = 1
    /\ tmpFiles = <<>>
    /\ patchErr = "none"
    /\ cleanErr = FALSE
    /\ passErr = "none"
    /\ lastDiff = NoDiff
    /\ pre = fs
    /\ fetched = EmptyFetched
    /\ started = <<>>
    /\ progress = <<>>
    /\ ValidateIdle

NextConfig ==
    \/ UpsertGame
    \/ DeleteGameRead
    \/ DeleteGameWrite
    \/ DeleteGameModel

SpecConfig == InitConfig /\ [][NextConfig]_vars

(***************************************************************************)
(* The configuration service, its calls running at once: UpdateLaunchDelay *)
(* and PersistGameModel, which take no lock, and DeleteGame, which takes   *)
(* s.mutex. cs holds, for each call, where it is (pc), the configuration   *)
(* it read (conf) and the error it returns (err).                          *)
(***************************************************************************)
\* The launch delay UpdateLaunchDelay is called with.
NewLaunchDelay == 500

NoConf == [Games |-> <<>>, LaunchDelay |-> 0]

\* conf, err := s.store.Read() of the call c; if err != nil { return err }
StoreRead(c, next) ==
    \E readOk \in BOOLEAN :
        cs' = [cs EXCEPT ![c] = IF readOk THEN [@ EXCEPT !.pc = next, !.conf = conf]
                                ELSE [@ EXCEPT !.pc = "done", !.err = TRUE]]

\* UpdateLaunchDelay(delay) up to s.store.Read().
UpdateLaunchDelayRead ==
    /\ cs.ld.pc = "read"
    /\ StoreRead("ld", "write")
    /\ UNCHANGED <<conf, gameModel, mutex>>
    /\ UNCHANGED <<runningGames, gameStates, mux, ex, li, launched, atStart, procs>>
    /\ UNCHANGED <<patchVars, validateVars>>

\* conf.LaunchDelay = delay; err = s.store.Write(conf); return
UpdateLaunchDelayWrite ==
    /\ cs.ld.pc = "write"
    /\ \E writeOk \in BOOLEAN :
         /\ conf' = IF writeOk THEN [cs.ld.conf EXCEPT !.LaunchDelay = cs.delay]
                    ELSE conf
         /\ cs' = [cs EXCEPT !.ld.pc = "done", !.ld.err = ~writeOk]
    /\ UNCHANGED <<gameModel, mutex>>
    /\ UNCHANGED <<runningGames, gameStates, mux, ex, li, launched, atStart, procs>>
    /\ UNCHANGED <<patchVars, validateVars>>

\* PersistGameModel() up to s.store.Read().
PersistGameModelRead ==
    /\ cs.pg.pc = "read"
    /\ StoreRead("pg", "games")
    /\ UNCHANGED <<conf, gameModel, mutex>>
    /\ UNCHANGED <<runningGames, gameStates, mux, ex, li, launched, atStart, procs>>
    /\ UNCHANGED <<patchVars, validateVars>>

\* games := s.gameModel.Games(), and conf.Games rebuilt from it.
PersistGameModelGames ==
    /\ cs.pg.pc = "games"
    /\ cs' = [cs EXCEPT !.pg.pc = "write", !.pg.conf.Games = gameModel]
    /\ UNCHANGED <<conf, gameModel, mutex>>
    /\ UNCHANGED <<runningGames, gameStates, mux, ex, li, launched, atStart, procs>>
    /\ UNCHANGED <<patchVars, validateVars>>

\* err = s.store.Write(conf); return
PersistGameModelWrite ==
    /\ cs.pg.pc = "write"
    /\ \E writeOk \in BOOLEAN :
         /\ conf' = IF writeOk THEN cs.pg.conf ELSE conf
         /\ cs' = [cs EXCEPT !.pg.pc = "done", !.pg.err = ~writeOk]
    /\ UNCHANGED <<gameModel, mutex>>
    /\ UNCHANGED <<runningGames, gameStates, mux, ex, li, launched, atStart, procs>>
    /\ UNCHANGED <<patchVars, validateVars>>

\* DeleteGame(id): s.mutex.Lock() and s.store.Read(); the deferred Unlock
\* gives the mutex back when Read fails.
ConcurrentDeleteGameRead ==
    /\ cs.dg.pc = "read"
    /\ mutex = "free"
    /\ StoreRead("dg", "write")
    /\ mutex' = IF cs'.dg.pc = "write" THEN "DeleteGame" ELSE "free"
    /\ UNCHANGED <<conf, gameModel>>
    /\ UNCHANGED <<runningGames, gameStates, mux, ex, li, launched, atStart, procs>>
    /\ UNCHANGED <<patchVars, validateVars>>

\* The removal from conf.Games and s.store.Write(conf).
ConcurrentDeleteGameWrite ==
    /\ cs.dg.pc = "write"
    /\ \E writeOk \in BOOLEAN :
         /\ conf' = IF writeOk
                    THEN [cs.dg.conf EXCEPT !.Games = deleteFromConf(@, 1, cs.id)]
                    ELSE conf
         /\ cs' = [cs EXCEPT !.dg.pc = IF writeOk THEN "model" ELSE "done",
                             !.dg.err = ~writeOk]
         /\ mutex' = IF writeOk THEN mutex ELSE "free"
    /\ UNCHANGED gameModel
    /\ UNCHANGED <<runningGames, gameStates, mux, ex, li, launched, atStart, procs>>
    /\ UNCHANGED <<patchVars, validateVars>>

\* The removal from the game model, return nil and the deferred Unlock.
ConcurrentDeleteGameModel ==
    /\ cs.dg.pc = "model"
    /\ gameModel' = deleteFromModel(gameModel, gameModel, 1, cs.id)
    /\ cs' = [cs EXCEPT !.dg.pc = "done"]
    /\ mutex' = "free"
    /\ UNCHANGED conf
    /\ UNCHANGED <<runningGames, gameStates, mux, ex, li, launched, atStart, procs>>
    /\ UNCHANGED <<patchVars, validateVars>>

\* UpdateLaunchDelay(NewLaunchDelay), PersistGameModel() and DeleteGame(id)
\* called at once, on a store and a game model that list the same games.
InitStore ==
    /\ \E games \in DistinctGameLists :
         /\ conf = [Games |-> games, LaunchDelay |-> 0]
         /\ gameModel = games
    /\ \E id \in ConfigIDs :
         cs = [pc |-> "concurrent", id |-> id, delay |-> NewLaunchDelay,
               ld |-> [pc |-> "read", conf |-> NoConf, err |-> FALSE],
               pg |-> [pc |-> "read", conf |-> NoConf, err |-> FALSE],
               dg |-> [pc |-> "read", conf |-> NoConf, err |-> FALSE]]
    /\ mutex = "free"
    /\ runningGames = <<>>
    /\ gameStates = <<>>
    /\ mux = "free"
    /\ ex = [pc |-> "idle"]
    /\ li = [pc |-> "receive", state |-> [pid |-> <<>>, err |-> FALSE], before |-> <<>>]
    /\ launched = <<>>
    /\ atStart = [running |-> <<>>, notified |-> FALSE]
    /\ procs = [live |-> {}, next |-> 1, exited |-> 0]
    /\ fs = EmptyFetched
    /\ unreadable = {}
    /\ game = [OverrideBHCfg |-> FALSE, MaphackVersion |-> ModVersionNone,
               HDVersion |-> ModVersionNone]
    /\ manifests = [d \in RemoteDirs |-> <<>>]
    /\ step = "done"
    /\ pc = "begin"
    /\ remoteDir = ""
    /\ patchFiles = <<>>
    /\ patchLength = 0
    /\ idx = 1
    /\ ridx = 1
    /\ tmpFiles = <<>>
    /\ patchErr = "none"
    /\ cleanErr = FALSE
    /\ passErr = "none"
    /\ lastDiff = NoDiff
    /\ pre = fs
    /\ fetched = EmptyFetched
    /\ started = <<>>
    /\ progress = <<>>
    /\ ValidateIdle

NextStore ==
    \/ UpdateLaunchDelayRead
    \/ UpdateLaunchDelayWrite
    \/ PersistGameModelRead
    \/ PersistGameModelGames
    \/ PersistGameModelWrite
    \/ ConcurrentDeleteGameRead
    \/ ConcurrentDeleteGameWrite
    \/ ConcurrentDeleteGameModel

SpecStore == InitStore /\ [][NextStore]_vars

(***************************************************************************)
(* Properties of one apply step (SpecApply).                               *)
(***************************************************************************)
\* The .tmp siblings of the Download actions of the current batch.
BatchTmpPaths ==
    {TmpPath(patchFiles[i].File.Name) :
        i \in {k \in 1..Len(patchFiles) : patchFiles[k].Action = ActionDownload}}

\* No file other than the batch's .tmp siblings has been created or
\* overwritten since the batch started.
NoFinalCreatedOrOverwritten ==
    \A p \in DOMAIN fs \ BatchTmpPaths : p \in DOMAIN pre /\ fs[p] = pre[p]

\* C1: when doPatch returns the error of a failed Download action, no file
\* other than the batch's .tmp siblings has been created or overwritten; and
\* while doPatch runs, a final name is created or overwritten only once every
\* action of the batch has succeeded.
C1_AtomicPromotion ==
    /\ (pc = "failed" /\ patchErr = "download") => NoFinalCreatedOrOverwritten
    /\ (pc \in {"doPatch", "failed"} /\ ~NoFinalCreatedOrOverwritten)
           => idx > Len(patchFiles)

\* The second of two Download actions failed after the first was downloaded.
C1_Witness ==
    /\ pc = "failed"
    /\ patchErr = "download"
    /\ Len(patchFiles) = 2
    /\ idx = 2
    /\ Len(tmpFiles) = 1
    /\ tmpFiles[1] \in DOMAIN fs

\* The files of a directory that are no .tmp artifacts.
Finals(fsys) == [p \in {q \in DOMAIN fsys : ~HasSuffixTmp(q)} |-> fsys[p]]

\* C2: whenever doPatch returns an error, the files of the install directory
\* that are no .tmp artifacts are exactly those it held before the batch, with
\* their content.
C2_AllOrNothing == pc = "failed" => Finals(fs) = Finals(pre)

\* C3: after a failed batch whose cleanup returned no error, no .tmp sibling
\* of a Download action of the batch is left.
C3_CleanupRemovesBatchTmp ==
    (pc = "returned" /\ patchErr # "none" /\ ~cleanErr)
        => BatchTmpPaths \cap DOMAIN fs = {}

\* C4: cleanUpFailedPatch leaves every file whose name does not end in .tmp
\* as it was, and when it returns no error it has removed every file whose
\* name ends in .tmp.
C4_CleanupExactlySuffix ==
    [][(pc = "failed" /\ pc' = "returned") =>
          /\ \A p \in DOMAIN fs :
                ~HasSuffixTmp(p) => (p \in DOMAIN fs' /\ fs'[p] = fs[p])
          /\ ~cleanErr' => \A p \in DOMAIN fs' : ~HasSuffixTmp(p)]_vars

\* The actions the last diff returned for the i-th entry of its manifest.
EntryActions(i) ==
    {k \in 1..Len(lastDiff.actions) : lastDiff.actions[k].File = lastDiff.files[i]}

ExactlyOne(i, kind) ==
    /\ Cardinality(EntryActions(i)) = 1
    /\ \A k \in EntryActions(i) : lastDiff.actions[k].Action = kind

AbsentEntries ==
    {i \in 1..Len(lastDiff.files) :
        ~lastDiff.files[i].Deprecated /\ lastDiff.files[i].Name \notin DOMAIN pre}

NotIgnoredEntries ==
    {i \in 1..Len(lastDiff.files) : ~IsIgnored(lastDiff.files[i].Name, lastDiff.ignore)}

\* C5 as stated: a diff that returns no error holds exactly one Download
\* action for every entry that is not deprecated and whose file is absent.
C5_AbsentDownloaded ==
    (lastDiff.ran /\ lastDiff.err = "none")
        => \A i \in AbsentEntries : ExactlyOne(i, ActionDownload)

\* C5 amended: when the diff returns no error, every entry that is not
\* deprecated, not named in the ignore list and whose file is absent gets
\* exactly one Download action.
C5_AbsentDownloadedUnlessIgnored ==
    (lastDiff.ran /\ lastDiff.err = "none")
        => \A i \in AbsentEntries \cap NotIgnoredEntries : ExactlyOne(i, ActionDownload)

\* A diff with an ignore list returned a Download for an absent entry that
\* ignores the checksum.
C5_Witness ==
    /\ lastDiff.ran
    /\ lastDiff.err = "none"
    /\ lastDiff.ignore # <<>>
    /\ \E i \in AbsentEntries \cap NotIgnoredEntries : lastDiff.files[i].IgnoreCRC

DeprecatedEntries == {i \in 1..Len(lastDiff.files) : lastDiff.files[i].Deprecated}

\* What C6 says of the deprecated entry i.
DeprecatedHandled(i) ==
    LET name == lastDiff.files[i].Name IN
    IF name \in DOMAIN pre
    THEN /\ ExactlyOne(i, ActionDelete)
         /\ \A k \in EntryActions(i) : lastDiff.actions[k].LocalCRC = CRC32(pre[name])
    ELSE EntryActions(i) = {}

\* C6 as stated: a diff that returns no error holds, for every deprecated
\* entry, exactly one Delete action carrying the local checksum when its file
\* is present, and no action when it is absent.
C6_DeprecatedDeleted ==
    (lastDiff.ran /\ lastDiff.err = "none")
        => \A i \in DeprecatedEntries : DeprecatedHandled(i)

\* C6 amended: so it is when the diff returns no error and the entry is not
\* named in the ignore list; and a deprecated entry never gets a Download.
C6_DeprecatedDeletedUnlessIgnored ==
    lastDiff.ran =>
        /\ lastDiff.err = "none" =>
              \A i \in DeprecatedEntries \cap NotIgnoredEntries : DeprecatedHandled(i)
        /\ \A i \in DeprecatedEntries :
              \A k \in EntryActions(i) : lastDiff.actions[k].Action # ActionDownload

\* A diff returned a Delete for a deprecated file and nothing for a deprecated
\* entry whose file is absent.
C6_Witness ==
    /\ lastDiff.ran
    /\ lastDiff.err = "none"
    /\ \E i, j \in DeprecatedEntries \cap NotIgnoredEntries :
          /\ lastDiff.files[i].Name \in DOMAIN pre
          /\ lastDiff.files[j].Name \notin DOMAIN pre

\* a is b with some of its elements left out.
RECURSIVE IsSubsequence(_, _)
IsSubsequence(a, b) ==
    IF a = <<>> THEN TRUE
    ELSE IF b = <<>> THEN FALSE
    ELSE IF Head(a) = Head(b) THEN IsSubsequence(Tail(a), Tail(b))
    ELSE IsSubsequence(a, Tail(b))

ActionNames == [k \in 1..Len(lastDiff.actions) |-> lastDiff.actions[k].File.Name]
EntryNames == [i \in 1..Len(lastDiff.files) |-> lastDiff.files[i].Name]

\* C29: the actions getFilesToPatch returns are in the order of the manifest:
\* their names are the names of the manifest with some left out, and no
\* entry of the manifest has more than one action.
C29_ActionsInManifestOrder ==
    lastDiff.ran =>
        /\ IsSubsequence(ActionNames, EntryNames)
        /\ \A i \in 1..Len(lastDiff.files) : Cardinality(EntryActions(i)) <= 1
        /\ \A k \in 1..Len(lastDiff.actions) :
               \E i \in 1..Len(lastDiff.files) : k \in EntryActions(i)

\* A diff returned a Delete for the first entry of its manifest and then a
\* Download for the second, of another name.
C29_Witness ==
    /\ lastDiff.ran
    /\ Len(lastDiff.files) = 2
    /\ Len(lastDiff.actions) = 2
    /\ EntryActions(1) = {1}
    /\ EntryActions(2) = {2}
    /\ lastDiff.actions[1].Action = ActionDelete
    /\ lastDiff.actions[2].Action = ActionDownload

\* The sum of the ContentLength of the Download actions from the k-th on.
RECURSIVE DownloadLength(_, _)
DownloadLength(actions, k) ==
    IF k > Len(actions) THEN 0
    ELSE (IF actions[k].Action = ActionDownload
          THEN actions[k].File.ContentLength ELSE 0)
         + DownloadLength(actions, k + 1)

\* C30: the total getFilesToPatch returns is the sum of the ContentLength
\* of the entries it returns a Download for, Delete actions and entries
\* without action adding nothing; with an error it returns the total 0 and
\* no action.
C30_TotalIsDownloadLength ==
    lastDiff.ran =>
        /\ lastDiff.err = "none" =>
               lastDiff.total = DownloadLength(lastDiff.actions, 1)
        /\ lastDiff.err # "none" =>
               lastDiff.total = 0 /\ lastDiff.actions = <<>>

\* A diff returned a Delete and a Download, and the length of the
\* Download alone as total.
C30_Witness ==
    /\ lastDiff.ran
    /\ lastDiff.err = "none"
    /\ Len(lastDiff.actions) = 2
    /\ \E k, l \in 1..2 :
          /\ lastDiff.actions[k].Action = ActionDelete
          /\ lastDiff.actions[l].Action = ActionDownload
          /\ lastDiff.total = lastDiff.actions[l].File.ContentLength
          /\ lastDiff.total > 0

IgnoreCRCEntries == {i \in 1..Len(lastDiff.files) : lastDiff.files[i].IgnoreCRC}

\* What C31 says of the entry i, which ignores the checksum: deprecated and
\* present it gets a Delete; not deprecated it gets nothing when present and
\* a Download when absent.
IgnoreCRCHandled(i) ==
    LET f == lastDiff.files[i] IN
    /\ (f.Deprecated /\ f.Name \in DOMAIN pre) => ExactlyOne(i, ActionDelete)
    /\ (~f.Deprecated /\ f.Name \in DOMAIN pre) => EntryActions(i) = {}
    /\ (~f.Deprecated /\ f.Name \notin DOMAIN pre) => ExactlyOne(i, ActionDownload)

\* C31 as stated: in a diff that returns no error, every entry that ignores
\* the checksum gets a Delete when it is deprecated and its file is present,
\* and, when it is not deprecated, no action if its file is present,
\* whatever its content, and a Download if it is absent.
C31_DeprecationBeforeIgnoreCRC ==
    (lastDiff.ran /\ lastDiff.err = "none")
        => \A i \in IgnoreCRCEntries : IgnoreCRCHandled(i)

\* C31 amended: so it is for the entries that are not named in the ignore
\* list; an entry named in the ignore list gets no action.
C31_DeprecationBeforeIgnoreCRCUnlessIgnored ==
    (lastDiff.ran /\ lastDiff.err = "none")
        => /\ \A i \in IgnoreCRCEntries \cap NotIgnoredEntries : IgnoreCRCHandled(i)
           /\ \A i \in 1..Len(lastDiff.files) :
                  i \notin NotIgnoredEntries => EntryActions(i) = {}

\* A diff returned a Delete for a present entry that is deprecated and
\* ignores the checksum, and nothing for a present entry that ignores the
\* checksum and whose content differs from the manifest.
C31_Witness ==
    /\ lastDiff.ran
    /\ lastDiff.err = "none"
    /\ \E i, j \in IgnoreCRCEntries \cap NotIgnoredEntries :
          /\ lastDiff.files[i].Deprecated
          /\ lastDiff.files[i].Name \in DOMAIN pre
          /\ ExactlyOne(i, ActionDelete)
          /\ ~lastDiff.files[j].Deprecated
          /\ lastDiff.files[j].Name \in DOMAIN pre
          /\ CRC32(pre[lastDiff.files[j].Name]) # lastDiff.files[j].CRC
          /\ EntryActions(j) = {}

\* The value num/den is a fraction of a positive total, from 0 to 1.
InUnitRange(v) == v.den > 0 /\ 0 <= v.num /\ v.num <= v.den

\* a <= b, for fractions of positive denominators.
FractionLeq(a, b) == a.num * b.den <= b.num * a.den

\* C33: the first value doPatch sends on the progress channel is 0, and every
\* later value of the batch is writtenBytes/totalBytes with 0 <=
\* writtenBytes <= totalBytes and totalBytes > 0, so that the values lie
\* in [0,1] and never decrease, batches of Delete actions only included.
C33_ProgressInUnitRange ==
    pc \in {"doPatch", "failed", "returned"} =>
        /\ progress # <<>>
        /\ progress[1] = ProgressZero
        /\ \A k \in 2..Len(progress) :
               /\ progress[k].den = patchLength
               /\ InUnitRange(progress[k])
               /\ FractionLeq(progress[k - 1], progress[k])

\* The names the actions of the current batch are about.
BatchNames == {patchFiles[i].File.Name : i \in 1..Len(patchFiles)}

\* What C38 says of the .tmp siblings and of the files of the actions.
BatchApplied ==
    /\ BatchTmpPaths \cap DOMAIN fs = {}
    /\ \A i \in 1..Len(patchFiles) :
           LET name == patchFiles[i].File.Name IN
           IF patchFiles[i].Action = ActionDownload
           THEN name \in DOMAIN fs /\ fs[name] = fetched[name]
           ELSE name \notin DOMAIN fs

\* The files with the paths given are as they were before the batch.
UnchangedAt(paths) ==
    \A p \in paths : p \in DOMAIN fs /\ p \in DOMAIN pre /\ fs[p] = pre[p]

\* C38 as stated: when doPatch returns nil, no .tmp sibling of a Download
\* action of the batch is left, the file of every Download action holds the
\* content served for it, the file of every Delete action is absent, and
\* every file no action names is as it was before the batch.
C38_DoPatchPostcondition ==
    DoPatchDone =>
        /\ BatchApplied
        /\ UnchangedAt((DOMAIN fs \cup DOMAIN pre) \ BatchNames)

\* C38 amended: so it is of every file that no action names and that is not
\* the .tmp sibling of a Download action (a sibling found in the directory
\* before the batch is overwritten and renamed like one the batch created).
C38_DoPatchPostconditionButSiblings ==
    DoPatchDone =>
        /\ BatchApplied
        /\ UnchangedAt((DOMAIN fs \cup DOMAIN pre) \ (BatchNames \cup BatchTmpPaths))

\* A batch that replaced a file with another content and deleted a file has
\* returned nil, with a file of no action in the directory.
C38_Witness ==
    /\ DoPatchDone
    /\ \E i, j \in 1..Len(patchFiles) :
          /\ patchFiles[i].Action = ActionDownload
          /\ patchFiles[i].File.Name \in DOMAIN pre
          /\ pre[patchFiles[i].File.Name] # fs[patchFiles[i].File.Name]
          /\ patchFiles[j].Action = ActionDelete
          /\ patchFiles[j].File.Name \in DOMAIN pre
    /\ StrayFile \in DOMAIN fs
    /\ BatchTmpPaths \cap DOMAIN pre # {}

\* Every Download of the batch was served a content with the manifest's checksum.
RemoteMatches ==
    \A i \in 1..Len(patchFiles) :
        patchFiles[i].Action = ActionDownload =>
            /\ patchFiles[i].File.Name \in DOMAIN fetched
            /\ CRC32(fetched[patchFiles[i].File.Name]) = patchFiles[i].File.CRC

\* C8: once doPatch has applied a diff, the remote contents matching the
\* manifest's checksums, the diff of the same manifest is empty.
C8_RoundTrip ==
    (DoPatchDone /\ RemoteMatches) =>
        LET d == getFilesToPatch(lastDiff.files, fs, unreadable, lastDiff.ignore)
        IN  d.err = "none" /\ d.actions = <<>>

\* A batch of a Download and a Delete of an existing file has been applied.
C8_Witness ==
    /\ DoPatchDone
    /\ RemoteMatches
    /\ Len(tmpFiles) >= 1
    /\ \E i \in 1..Len(patchFiles) :
          /\ patchFiles[i].Action = ActionDelete
          /\ patchFiles[i].File.Name \in DOMAIN pre

(***************************************************************************)
(* Properties of a patch pass (Spec).                                      *)
(***************************************************************************)
OtherVersion(v) == IF v = "A" THEN "B" ELSE "A"

\* What C9 says of a reset that returns: with a desired version and the marker
\* file of the other version's manifest on disk, no file of that manifest is
\* left, the files of the ignore list apart.
ResetRemoved(desired, dirOf, identifier, filesToIgnore) ==
    LET files == manifests[dirOf[OtherVersion(desired)]]
    IN  (desired # ModVersionNone /\ isModInstalled(fs, identifier, files))
            => \A i \in 1..Len(files) :
                  ~IsIgnored(files[i].Name, filesToIgnore)
                      => files[i].Name \notin DOMAIN fs'

\* C9: a reset of the maphack or of the HD mod that returns no error, the
\* desired version being A (or B) and the marker file of B (or A) on disk, has
\* deleted every file of the other version's manifest, whatever their
\* contents.
C9_ResetDeletesOtherVersion ==
    [][/\ (step = "resetMaphack" /\ step' = "resetHD")
              => ResetRemoved(game.MaphackVersion, MaphackDirs,
                              ModMaphackIdentifier, IgnoredMaphackFiles(game))
       /\ (step = "resetHD" /\ step' = "apply113c")
              => ResetRemoved(game.HDVersion, HDDirs, ModHDIdentifier, <<>>)]_vars

\* The versions of a mod family, the desired one apart, that the marker-file
\* check detects as installed.
DetectedOthers(desired, dirOf, identifier) ==
    {v \in {"A", "B"} :
        v # desired /\ isModInstalled(fs, identifier, manifests[dirOf[v]])}

\* C10: at the end of a successful pass, no version of the maphack or of the
\* HD mod other than the desired one is detected as installed, and none at all
\* when the desired version is "none".
C10_AtMostOneInstalled ==
    step = "done" =>
        /\ DetectedOthers(game.MaphackVersion, MaphackDirs, ModMaphackIdentifier) = {}
        /\ DetectedOthers(game.HDVersion, HDDirs, ModHDIdentifier) = {}

\* The steps of a pass in the order the spec gives; a mod is applied only if
\* a version of it is desired.
StepOrder ==
    <<"resetMaphack", "resetHD", "apply113c", "applySlash", "applyMaphack",
      "applyHD", "configure">>

StepSelected(s) ==
    /\ s = "applyMaphack" => game.MaphackVersion # ModVersionNone
    /\ s = "applyHD" => game.HDVersion # ModVersionNone

IsPrefix(a, b) == Len(a) <= Len(b) /\ SubSeq(b, 1, Len(a)) = a

\* The last diff was computed on the manifest of the desired version of a mod.
DesiredModDiffed ==
    /\ lastDiff.ran
    /\ \/ /\ game.MaphackVersion # ModVersionNone
          /\ lastDiff.files = manifests[MaphackDir(game.MaphackVersion)]
       \/ /\ game.HDVersion # ModVersionNone
          /\ lastDiff.files = manifests[HDDir(game.HDVersion)]

PassOrderKept ==
    /\ IsPrefix(started, SelectSeq(StepOrder, StepSelected))
    /\ DesiredModDiffed =>
          /\ Len(started) > 2
          /\ started[1] = "resetMaphack"
          /\ started[2] = "resetHD"
    /\ passErr # "none" => step = "error"

\* C11: the steps of a pass start in the order maphack reset, HD reset, 1.13c,
\* community patch, maphack, HD mod, OS configuration; a step starts only
\* when no step before it has failed and none is still running; and the
\* desired version of a mod is diffed only after both resets have returned.
C11_PassOrder ==
    /\ []PassOrderKept
    /\ [][started' # started => (passErr = "none" /\ pc = "begin" /\ step # "error")]_vars

\* A pass with both mods desired has run its seven steps, one of them
\* patching files.
C11_Witness ==
    /\ step = "done"
    /\ started = StepOrder
    /\ Len(tmpFiles) > 0

\* The names a manifest lists.
ManifestNames(files) == {files[i].Name : i \in 1..Len(files)}

\* The names of the manifests of the versions of a mod family that are
\* installed and not the desired one: the files a reset uninstalls.
UninstalledNames(dirOf, desired, identifier) ==
    UNION {ManifestNames(manifests[dirOf[v]]) :
              v \in {w \in DOMAIN dirOf :
                        /\ w # desired
                        /\ isModInstalled(fs, identifier, manifests[dirOf[w]])}}

\* Every Delete of a diff, and of the batch doPatch executes, is that of a
\* deprecated entry.
DeletesAreDeprecated ==
    /\ \A k \in 1..Len(lastDiff.actions) :
          lastDiff.actions[k].Action = ActionDelete
              => lastDiff.actions[k].File.Deprecated
    /\ \A k \in 1..Len(patchFiles) :
          patchFiles[k].Action = ActionDelete => patchFiles[k].File.Deprecated

\* A reset step removes only files of manifests of versions it uninstalls.
ResetRemovesUninstalled ==
    /\ (step = "resetMaphack" /\ started' # started)
          => (DOMAIN fs \ DOMAIN fs') \subseteq
                 UninstalledNames(MaphackDirs, game.MaphackVersion,
                                  ModMaphackIdentifier)
    /\ (step = "resetHD" /\ started' # started)
          => (DOMAIN fs \ DOMAIN fs') \subseteq
                 UninstalledNames(HDDirs, game.HDVersion, ModHDIdentifier)

\* This step is an apply step's diff of the base, community-patch or desired
\* mod manifest, returning no error.
ApplyDiffs ==
    /\ step \in ApplySteps
    /\ pc = "begin"
    /\ started' # started
    /\ passErr' = "none"

\* The entries of the manifest diffed by this step that are not deprecated
\* and whose file is missing or has not the checksum of the manifest.
StaleEntries ==
    {i \in 1..Len(lastDiff'.files) :
        LET f == lastDiff'.files[i] IN
        /\ ~f.Deprecated
        /\ (f.Name \notin DOMAIN fs \/ CRC32(fs[f.Name]) # f.CRC)}

\* Those the diff skips: named in the ignore list, or ignoring the checksum
\* with their file present.
SkippedEntries ==
    {i \in 1..Len(lastDiff'.files) :
        LET f == lastDiff'.files[i] IN
        \/ IsIgnored(f.Name, lastDiff'.ignore)
        \/ (f.IgnoreCRC /\ f.Name \in DOMAIN fs)}

\* C21 as stated: every Delete produced or executed is that of a deprecated
\* entry or of a file of a version being uninstalled, and every entry of the
\* base, community-patch or desired-mod manifest that is not deprecated and
\* is missing or has a wrong checksum yields a Download.
C21_DeleteOnlyDeprecatedOrUninstalled ==
    /\ []DeletesAreDeprecated
    /\ [][/\ ResetRemovesUninstalled
          /\ ApplyDiffs =>
                \A i \in StaleEntries : ExactlyOne(i, ActionDownload)']_vars

\* C21 amended: so it is, the entries the diff skips (named in the ignore
\* list, or ignoring the checksum with their file present) yielding no
\* action at all.
C21_DeleteOnlyDeprecatedOrUninstalledUnlessSkipped ==
    /\ []DeletesAreDeprecated
    /\ [][/\ ResetRemovesUninstalled
          /\ ApplyDiffs =>
                /\ \A i \in StaleEntries \ SkippedEntries :
                      ExactlyOne(i, ActionDownload)'
                /\ \A i \in StaleEntries \cap SkippedEntries :
                      EntryActions(i)' = {}]_vars

\* After a reset that removed the marker file of the version it uninstalled,
\* the batch of the desired maphack version holds a Delete of its deprecated
\* entry and a Download.
C21_Witness ==
    /\ step = "applyMaphack"
    /\ pc = "doPatch"
    /\ started[1] = "resetMaphack"
    /\ \E k \in 1..Len(patchFiles) : patchFiles[k].Action = ActionDelete
    /\ \E k \in 1..Len(patchFiles) : patchFiles[k].Action = ActionDownload

\* The names some manifest lists with ignore_crc set and not deprecated.
IgnoreCRCNames ==
    {n \in PassNames :
        \E d \in RemoteDirs : \E i \in 1..Len(manifests[d]) :
            /\ manifests[d][i].Name = n
            /\ manifests[d][i].IgnoreCRC
            /\ ~manifests[d][i].Deprecated}

\* C22: in a patch pass a file that is present and whose manifest entry has
\* ignore_crc set and is not deprecated is neither overwritten nor deleted,
\* whatever its content and the versions installed or desired.
C22_IgnoreCRCFileKept ==
    [][\A n \in IgnoreCRCNames \cap DOMAIN fs :
          n \in DOMAIN fs' /\ fs'[n] = fs[n]]_vars

\* No action of the list is about the file name.
NoActionFor(actions, name) ==
    \A k \in 1..Len(actions) : actions[k].File.Name # name

\* C23: when the installation asks for the override of the maphack
\* configuration, no diff given the ignore list returns an action for BH.cfg,
\* and neither the maphack reset nor the maphack apply step creates,
\* overwrites or deletes BH.cfg, be it present, absent, differing or
\* deprecated in the manifest.
C23_IgnoredFileUntouched ==
    /\ []((lastDiff.ran /\ IsIgnored(BHCfg, lastDiff.ignore))
             => NoActionFor(lastDiff.actions, BHCfg))
    /\ []((game.OverrideBHCfg /\ step = "applyMaphack")
             => NoActionFor(patchFiles, BHCfg))
    /\ [][(game.OverrideBHCfg /\ step \in {"resetMaphack", "applyMaphack"})
             => /\ BHCfg \in DOMAIN fs <=> BHCfg \in DOMAIN fs'
                /\ BHCfg \in DOMAIN fs => fs'[BHCfg] = fs[BHCfg]]_vars

\* With the override asked for, the maphack reset has run and the apply step
\* of the desired version, whose manifest deprecates BH.cfg, is patching
\* while BH.cfg is on disk.
C23_Witness ==
    /\ game.OverrideBHCfg
    /\ step = "applyMaphack"
    /\ pc = "doPatch"
    /\ started[1] = "resetMaphack"
    /\ lastDiff.ignore = <<BHCfg>>
    /\ \E i \in 1..Len(lastDiff.files) :
          lastDiff.files[i].Name = BHCfg /\ lastDiff.files[i].Deprecated
    /\ BHCfg \in DOMAIN fs
    /\ Len(patchFiles) > 0

C26_CompoundCleanupError ==
    pc = "returned" =>
        /\ passErr # "none"
        /\ patchErr # "none"
        /\ ~cleanErr => passErr = patchErr
        /\ cleanErr => passErr = CompoundError(patchErr, "cleanup")

\* The batch of the community patch failed at a rename and the cleanup
\* failed too.
C26_Witness ==
    /\ pc = "returned"
    /\ started[Len(started)] = "applySlash"
    /\ patchErr = "rename"
    /\ cleanErr
    /\ passErr = CompoundError("rename", "cleanup")

\* ValidateGameVersions on the installation of the pass as the pass left it,
\* every fetch succeeding: the files it adds to the model of files to patch,
\* validate113cVersion giving the verdict.
ValidationAfterPass(verdict) ==
    LET inst == [game |-> game, dir |-> fs, unread |-> unreadable, d2path |-> 1]
        base == getFilesToPatch(manifests["1.13c"], fs, unreadable, <<>>)
        slash == getFilesToPatch(manifests["current"], fs, unreadable, <<>>)
        m0 == IF verdict = "invalid"
              THEN addFilesToModel(<<>>, base.actions, inst.d2path) ELSE <<>>
        m1 == addFilesToModel(m0, slash.actions, inst.d2path)
        mh == validateMaphackVersion(m1, inst, AvailableMods.Maphack, 0)
        hd == validateHDVersion(mh.model, [inst EXCEPT !.dir = mh.dir],
                                AvailableMods.HD, 0)
    IN  hd.model

\* C36: once a patch pass has ended with the done signal, the configuration,
\* the manifests and the install directory staying as they are, the next
\* ValidateGameVersions adds no Download and no Delete action, for the base
\* version, the community patch or either family of mods.
C36_PatchConverges ==
    step = "done" =>
        \A verdict \in {"valid", "invalid"} : ValidationAfterPass(verdict) = <<>>

\* The pass has sent its last signal: done, or an error on the state channel.
Terminal == step \in {"done", "error"}

\* C37: the caller receiving on the three channels, every patch pass comes to
\* one terminal signal: done, sent with no error before it, or one error on
\* the state channel, never both; and after it nothing more is sent on the
\* progress, the state or the done channel.
C37_TerminalSignal ==
    /\ <>Terminal
    /\ [](step = "done" => passErr = "none")
    /\ [](step = "error" => passErr # "none")
    /\ [][Terminal => /\ step' = step
                      /\ passErr' = passErr
                      /\ progress' = progress
                      /\ started' = started]_vars

\* A pass has signalled done after a batch whose downloads sent progress.
C37_Witness ==
    /\ step = "done"
    /\ passErr = "none"
    /\ Len(progress) > 1
    /\ Len(started) >= 5

(***************************************************************************)
(* Properties of the launcher (SpecExec).                                  *)
(***************************************************************************)
\* C12: in every batch of Exec the first launch issued follows no sleep, and
\* every later launch of the batch follows exactly one sleep of the delay of
\* the batch, whatever the installations and the instances left to launch,
\* the first installation having nothing left to launch included.
C12_LaunchPacing ==
    ex.pc # "idle" =>
        \A j \in 1..Len(launched) :
            launched[j].slept = IF j = 1 THEN 0 ELSE ex.delayMS

\* c1 + ... + cn of the installations from k on.
RECURSIVE SumInstances(_, _)
SumInstances(games, k) ==
    IF k > Len(games) THEN 0 ELSE games[k].Instances + SumInstances(games, k + 1)

\* The launches of the batch issued for the installation id.
LaunchesOf(id) == {j \in 1..Len(launched) : launched[j].GameID = id}

\* Exec has returned nil from a batch that began with no process running
\* and during which no process exited.
QuietBatchDone ==
    /\ ex.pc = "done"
    /\ ~ex.err
    /\ atStart.running = <<>>
    /\ ~atStart.notified

\* C13: when no process is running and no exit notification arrives during
\* the batch, Exec issues exactly c1 + ... + cn launches, ci of them for
\* installation i, and when it returns s.runningGames holds exactly one
\* entry per launch, with the pid the launch returned and the id of its
\* installation.
C13_LaunchCountAndRecording ==
    QuietBatchDone =>
        /\ Len(launched) = SumInstances(conf.Games, 1)
        /\ \A k \in 1..Len(conf.Games) :
               Cardinality(LaunchesOf(conf.Games[k].ID)) = conf.Games[k].Instances
        /\ runningGames =
               [j \in 1..Len(launched) |->
                   NewGame(launched[j].pid[1], launched[j].GameID)]

\* Counts {2, 1} have given 3 launches and 3 entries.
C13_Witness ==
    /\ QuietBatchDone
    /\ Len(conf.Games) = 2
    /\ conf.Games[1].Instances = 2
    /\ conf.Games[2].Instances = 1
    /\ Len(launched) = 3
    /\ Len(runningGames) = 3

Max(a, b) == IF a >= b THEN a ELSE b

\* C14: for every installation, the launches Exec issues for it number
\* max(0, Instances - r), r being the entries of s.runningGames with the id
\* of the installation when Exec started.
C14_InstanceAccounting ==
    (ex.pc = "done" /\ ~ex.err) =>
        \A k \in 1..Len(conf.Games) :
            Cardinality(LaunchesOf(conf.Games[k].ID)) =
                Max(0, conf.Games[k].Instances
                          - runningCount(conf.Games[k].ID, atStart.running))

\* C15: the value mutateInstancesToLaunch stores for an installation is
\* never negative: it is 0 when more processes of the installation are
\* running than its instance count.
C15_RemainingNeverNegative ==
    ex.pc # "idle" =>
        \A i \in 1..Len(ex.games) : i < ex.m => ex.games[i].Instances >= 0

\* Exec has returned the error of a launch of the batch: the last launch
\* issued gave no pid.
LaunchFailed ==
    /\ ex.pc = "done"
    /\ ex.err
    /\ launched # <<>>
    /\ launched[Len(launched)].pid = <<>>

\* The entry of s.runningGames for the j-th launch of the batch.
Recorded(j) ==
    \E e \in 1..Len(runningGames) :
        runningGames[e] = NewGame(launched[j].pid[1], launched[j].GameID)

\* The entries of s.runningGames are those Exec found or entries of the
\* launches of the batch that gave a pid.
OnlyLaunchedRecorded ==
    \A e \in 1..Len(runningGames) :
        \/ \E b \in 1..Len(atStart.running) : runningGames[e] = atStart.running[b]
        \/ \E j \in 1..Len(launched) : launched[j].pid # <<>> /\ Recorded(j)
                                        /\ runningGames[e].PID = launched[j].pid[1]

\* C25: when the k-th launch of a batch fails, Exec returns the error, issues
\* no launch and no sleep after it, adds no entry to s.runningGames for the
\* failed launch, and the k-1 processes launched before it in the batch,
\* those not reported as exited, are still entries of s.runningGames.
C25_LaunchFailureAbort ==
    /\ [][(ex.pc = "launch" /\ launched' # launched
                /\ launched'[Len(launched')].pid = <<>>)
              => /\ ex'.pc = "done"
                 /\ ex'.err
                 /\ runningGames' = runningGames]_vars
    /\ [][LaunchFailed => /\ ex' = ex
                          /\ launched' = launched
                          /\ procs'.next = procs.next]_vars
    /\ [](LaunchFailed =>
             /\ OnlyLaunchedRecorded
             /\ \A j \in 1..(Len(launched) - 1) :
                    launched[j].pid[1] \in procs.live => Recorded(j))

\* Exec is at a read or a write of s.runningGames: the count of
\* mutateInstancesToLaunch, or the append after a launch.
ExecAtRunningGames == ex.pc \in {"mutate", "load", "store"}

\* The listener is in its removal, between Lock and Unlock.
ListenerAtRunningGames == li.pc \in {"remove", "unlock"}

\* C16: every read and every mutation of s.runningGames happens with s.mux
\* held by the goroutine that makes it, so the append of Exec, the count of
\* mutateInstancesToLaunch and the removal of the listener exclude each
\* other; and s.mux is not held across a launch, a sleep or a receive.
C16_RunningGamesUnderMutex ==
    /\ ExecAtRunningGames => mux = "exec"
    /\ ListenerAtRunningGames => mux = "listener"
    /\ ~(ExecAtRunningGames /\ ListenerAtRunningGames)
    /\ ex.pc \in {"sleep", "launch"} => mux # "exec"
    /\ li.pc = "receive" => mux # "listener"

\* state.pid != nil && g.PID == *state.pid
Matches(state, g) == state.pid # <<>> /\ g.PID = state.pid[1]

\* The running games without the entries the notification is about.
Reaped(running, state) ==
    LET Kept(g) == ~Matches(state, g) IN SelectSeq(running, Kept)

\* C17: handling a notification with pid p, the listener removes the entry
\* with pid p from s.runningGames and leaves the other entries, in their
\* order, whether or not the notification carries an error; a notification
\* with a nil pid or a pid of no entry leaves s.runningGames as it is.
C17_ExitReaping ==
    [][(/\ li.pc = "remove"
        /\ li'.pc # "remove"
        /\ Cardinality({j \in 1..Len(runningGames) :
                            Matches(li.state, runningGames[j])}) <= 1)
       => /\ li'.pc = "unlock"
          /\ runningGames' = Reaped(runningGames, li.state)]_vars

\* The listener has removed the first of several entries on a notification
\* that carried an error.
C17_Witness ==
    /\ li.pc = "unlock"
    /\ li.state.err
    /\ Len(li.before) > 1
    /\ Matches(li.state, li.before[1])
    /\ runningGames = Tail(li.before)

\* C34: the listener never crashes: whatever the notifications (with or
\* without an error, with a nil pid, with a pid of no entry or of several
\* entries of s.runningGames), its removal ends without a panic, it releases
\* s.mux after it and goes back to its receive.
C34_ListenerNeverCrashes ==
    /\ [](li.pc # "panic")
    /\ [][(li.pc = "remove" /\ li'.pc # "remove") => li'.pc = "unlock"]_vars
    /\ [][(li.pc = "unlock" /\ li'.pc # "unlock")
              => (li'.pc = "receive" /\ mux' = "free")]_vars

\* Exec has returned and the listener has handled every notification sent.
Quiescent == ex.pc = "done" /\ gameStates = <<>> /\ li.pc = "receive"

\* The entries of s.runningGames with the pid p.
EntriesOf(p) == {e \in 1..Len(runningGames) : runningGames[e].PID = p}

\* C35: whatever the interleaving of a batch of Exec with the notifications
\* the listener handles, once every notification sent has been handled
\* s.runningGames holds exactly the processes launched and not reported as
\* exited: one entry for each of them (none is lost), and no entry for a
\* process that has exited (none comes back).
C35_RunningSetConsistent ==
    Quiescent =>
        /\ \A p \in procs.live : Cardinality(EntriesOf(p)) = 1
        /\ \A e \in 1..Len(runningGames) : runningGames[e].PID \in procs.live

(***************************************************************************)
(* Properties of the validation (SpecValidate).                            *)
(***************************************************************************)
\* C18: when a step of ValidateGameVersions fails for an installation, the
\* call returns (false, error) and no file added during the call, for an
\* earlier installation or an earlier target of the failing one, is left in
\* the model of files to patch.
C18_ValidationAllOrNothing ==
    (val.pc = "done" /\ val.err # "none") =>
        /\ val.result = FALSE
        /\ patchFileModel = val.before

\* The call has computed the diff against the 1.13c manifest for every
\* installation.
BaseDiffAlways == val.baseDiffs = Len(installs)

\* The call has added no file to the model of files to patch.
NoActionAdded == patchFileModel = val.before

\* C19: ValidateGameVersions returns true exactly when the call adds no
\* action, the diff against the base version being computed for every
\* installation.
C19_TrueIffNoAction ==
    (val.pc = "done" /\ val.err = "none") =>
        /\ val.result = TRUE <=> NoActionAdded
        /\ BaseDiffAlways

\* C20: validation never returns an error whose cause is that a file listed
\* in a manifest does not exist in the install directory, the queuing of
\* the Delete actions of an installed version that is not the desired one
\* included.
C20_MissingFileNoError ==
    val.pc = "done" => val.err # "notfound"
\* C32: ValidateGameVersions leaves every install directory as it is, no
\* file created, overwritten, renamed or deleted, whether it succeeds or
\* fails, and also when it finds a mod version installed that is not the
\* desired one.
C32_ValidateLeavesDirectories ==
    [][\A g \in 1..Len(installs) : installs'[g].dir = installs[g].dir]_vars

\* ValidateGameVersions has returned after listing, as to be deleted, the
\* file that marks a maphack version that is installed and not desired; the
\* file is still in the install directory.
C32_Witness ==
    /\ val.pc = "done"
    /\ Len(installs) = 1
    /\ ModMaphackIdentifier \in DOMAIN installs[1].dir
    /\ \E k \in 1..Len(patchFileModel) :
          /\ patchFileModel[k].Name = ModMaphackIdentifier
          /\ patchFileModel[k].FileAction = ActionDelete

(***************************************************************************)
(* Properties of the configuration service (SpecConfig).                   *)
(***************************************************************************)
\* The places of the games with the id in a list of games.
PlacesOf(games, id) == {i \in 1..Len(games) : games[i].ID = id}

\* The games of the list without those with the id, in their order.
WithoutID(games, id) ==
    LET Other(g) == g.ID # id IN SelectSeq(games, Other)

UpsertReturned == cs.pc = "done" /\ cs.op = "UpsertGame"

\* C27: after UpsertGame(request) the game model holds exactly one game with
\* the id of the request, with the location, instances, flags, override and
\* mod versions of the request, created when the model had none with that
\* id; the other games are as they were, and the game reported as changed is
\* the game of the request.
C27_UpsertUpdatesOrCreates ==
    UpsertReturned =>
        /\ Cardinality(PlacesOf(gameModel, cs.id)) = 1
        /\ \A i \in PlacesOf(gameModel, cs.id) :
               gameModel[i] = updateFields(gameModel[i], cs.request)
        /\ WithoutID(gameModel, cs.id) = WithoutID(cs.model, cs.id)
        /\ cs.updated \in PlacesOf(gameModel, cs.id)

DeleteReturnedNil == cs.pc = "done" /\ cs.op = "DeleteGame" /\ ~cs.err

\* C28: after DeleteGame(id) returns without error, the persistent store and
\* the game model hold no game with the id, and hold their other games in
\* the order they had, whatever the lists, a list naming an id several
\* times included.
C28_DeleteRemovesEveryEntry ==
    DeleteReturnedNil =>
        /\ conf.Games = WithoutID(cs.store, cs.id)
        /\ gameModel = WithoutID(cs.model, cs.id)

(***************************************************************************)
(* Properties of the calls of the configuration service running at once    *)
(* (SpecStore).                                                            *)
(***************************************************************************)
\* The three calls have returned, none with an error.
AllReturnedNil ==
    \A c \in {"ld", "pg", "dg"} : cs[c].pc = "done" /\ ~cs[c].err

\* C39: whatever the interleaving of UpdateLaunchDelay, PersistGameModel and
\* DeleteGame, once the three have returned without error the store holds
\* the launch delay UpdateLaunchDelay wrote and no game with the id
\* DeleteGame removed; and the write of UpdateLaunchDelay leaves the list of
\* games of the store as the last write of another call left it.
C39_NoLostUpdate ==
    /\ [](AllReturnedNil =>
             /\ conf.LaunchDelay = cs.delay
             /\ \A j \in 1..Len(conf.Games) : conf.Games[j].ID # cs.id)
    /\ [][(cs.ld.pc = "write" /\ cs'.ld.pc = "done")
              => conf'.Games = conf.Games]_vars
====
